---------------------------- MODULE Spec2Model ----------------------------
(***************************************************************************)
(* Model of the job-chain runner and of the parallel executor with its     *)
(* database-backed work queue (prefect_exercise).                          *)
(*                                                                         *)
(* Three state machines share the module:                                  *)
(*   - the work queue (table pipeline_inputs) and the dispatchers that     *)
(*     drain it (run_parallel_from_files / run_parallel_from_database),    *)
(*     stepped one database statement at a time, because every statement   *)
(*     is its own transaction and other processes run between them;        *)
(*   - the chain registry and the sequential runner (PipelineDefinition,   *)
(*     run_pipeline, BaseJob.execute), stepped one chain step at a time;   *)
(*   - the default chain A -> B -> C run by worker processes side by side  *)
(*     (JobA, JobB, JobC), stepped one file or database statement at a     *)
(*     time over the shared output directory and the shared tables.        *)
(***************************************************************************)
EXTENDS Integers, Sequences, FiniteSets, TLC

VARIABLES
    rows,       \* table pipeline_inputs: rows[id] is the row with that id
    runs,       \* one record per dispatcher call (its Python locals)
    pipeline,   \* the PipelineDefinition: _jobs and _job_index
    flow,       \* one run_pipeline call (its Python locals and its trace)
    tables,     \* the names of the tables the database file holds
    inputs_add, \* how the last `inputs add` ended: None before the first
    output_dir, \* the files of the output directory: path -> content
    batches,    \* table processing_batches, as committed
    records,    \* table processed_records, as committed
    transaction,\* the open write transaction and the rows it has written
    processes,  \* one record per process running the default chain
    chain_runs  \* number of chain runs started so far

\* the state of the default chain and of what it writes
chain_vars == <<output_dir, batches, records, transaction, processes, chain_runs>>

vars == <<rows, runs, pipeline, flow, tables, inputs_add, chain_vars>>

-----------------------------------------------------------------------------
(* Bounds *)

\* most rows the queue table holds beside one dispatcher
MaxItems == 2
\* most rows the queue table holds beside two concurrent dispatchers
MaxItemsConcurrent == 2
\* most entries of an explicit file list handed to run_parallel_from_files
MaxFiles == 2

\* most rows the queue table holds while claim order and limit are explored
MaxQueue == 3

\* most entries of a file list while the worker count is explored
MaxSubmitted == 3
\* most processors of a machine get_max_workers is evaluated for
MaxParallelism == 3

\* largest total of a ParallelExecutionResult whose success_rate is computed
MaxTotal == 10

\* most runs of the default chain that are started
MaxChainRuns == 3

\* most steps of a chain
MaxJobs == 3

\* most items of one batch
MaxBatch == IF MaxItems > MaxFiles THEN MaxItems ELSE MaxFiles

\* multiprocessing.cpu_count() of the machine
cpu_count == 2

-----------------------------------------------------------------------------
(* Values *)

\* Python's None, for the optional string and timestamp fields
NoneV == "None"
\* a timestamp taken by datetime.utcnow(); only set/unset is observed
Now == "ts"

\* Optional integers (limit, max_workers): <<>> is None, <<n>> is n
NoInt == <<>>
Some(n) == <<n>>

PENDING == "pending"
PROCESSING == "processing"
COMPLETED == "completed"
FAILED == "failed"
InputStatus == {PENDING, PROCESSING, COMPLETED, FAILED}

\* the dispatcher calls: two, so that claimers can run concurrently
Runs == {"r1", "r2"}
\* file paths; two queue rows may carry the same one
Paths == {"a.txt", "b.txt"}
Priorities == {0, 1}

\* How one worker future ends:
\*   success  run_pipeline returned a successful JobResult
\*   failure  run_pipeline returned a failing JobResult
\*   raise    something in the worker raised (caught at parallel.py:114)
\*   broken   the future itself raises (the worker process died)
Outcomes == {"success", "failure", "raise", "broken"}

-----------------------------------------------------------------------------
(* The database file *)

\* Meta.table_name of the three models
PipelineInputs == "pipeline_inputs"
ProcessingBatches == "processing_batches"
ProcessedRecords == "processed_records"

\* initialize_database: create_tables([ProcessingBatch, ProcessedRecord],
\* safe=True) adds the tables that are missing; existing ones are kept
initialize_database(existing) ==
    existing \cup {ProcessingBatches, ProcessedRecords}

\* the exception peewee raises for a statement on a missing table
OperationalError == "OperationalError"

-----------------------------------------------------------------------------
(* The queue table: PipelineInput *)

\* PipelineInput.add_input: the row cls.create inserts
NewRow(id, file_path, priority) ==
    [id |-> id, file_path |-> file_path, status |-> PENDING,
     priority |-> priority, created_at |-> id,
     started_at |-> NoneV, completed_at |-> NoneV,
     error_message |-> NoneV, result_batch_id |-> NoneV]

\* ORDER BY priority DESC, created_at ASC: a comes before b
Before(a, b) ==
    \/ a.priority > b.priority
    \/ a.priority = b.priority /\ a.created_at < b.created_at

RECURSIVE OrderBy(_)
\* the rows of set S as the ordered list the query returns
OrderBy(S) ==
    IF S = {} THEN <<>>
    ELSE LET first == CHOOSE a \in S : \A b \in S \ {a} : Before(a, b)
         IN  <<first>> \o OrderBy(S \ {first})

\* the first n entries of s
Take(s, n) == SubSeq(s, 1, IF n < Len(s) THEN n ELSE Len(s))

\* PipelineInput.get_pending: a snapshot of the pending rows; `if limit:`
\* applies LIMIT only to a limit that is neither None nor 0
get_pending(table, limit) ==
    LET query == OrderBy({table[id] : id \in {j \in DOMAIN table :
                                              table[j].status = PENDING}})
    IN  IF limit # NoInt /\ limit[1] # 0 THEN Take(query, limit[1]) ELSE query

\* Model.save(): UPDATE of every field of the instance WHERE id = instance.id
save(table, instance) ==
    IF instance.id \in DOMAIN table
    THEN [table EXCEPT ![instance.id] = instance]
    ELSE table

\* PipelineInput.mark_processing, up to its save()
mark_processing(instance) ==
    [instance EXCEPT !.status = PROCESSING, !.started_at = Now]

\* PipelineInput.mark_completed, up to its save()
mark_completed(instance, result_batch_id) ==
    [instance EXCEPT !.status = COMPLETED, !.completed_at = Now,
                     !.result_batch_id = result_batch_id]

\* PipelineInput.mark_failed, up to its save()
mark_failed(instance, error_message) ==
    [instance EXCEPT !.status = FAILED, !.completed_at = Now,
                     !.error_message = error_message]

\* the UPDATE of retry-failed without error_message=None
retry_failed_keeps_error(table) ==
    [id \in DOMAIN table |->
        IF table[id].status = FAILED
        THEN [table[id] EXCEPT !.status = PENDING,
                               !.started_at = NoneV, !.completed_at = NoneV]
        ELSE table[id]]

\* the UPDATE of retry-failed with WHERE status != 'completed'
retry_failed_unfinished(table) ==
    [id \in DOMAIN table |->
        IF table[id].status # COMPLETED
        THEN [table[id] EXCEPT !.status = PENDING, !.error_message = NoneV,
                               !.started_at = NoneV, !.completed_at = NoneV]
        ELSE table[id]]

\* inputs retry-failed: one UPDATE ... WHERE status = 'failed'
retry_failed(table) ==
    [id \in DOMAIN table |->
        IF table[id].status = FAILED
        THEN [table[id] EXCEPT !.status = PENDING, !.error_message = NoneV,
                               !.started_at = NoneV, !.completed_at = NoneV]
        ELSE table[id]]

\* what execute() of that UPDATE returns and retry-failed reports: the
\* number of rows the WHERE clause matched
retry_failed_count(table) ==
    Len(SelectSeq(table, LAMBDA row : row.status = FAILED))

-----------------------------------------------------------------------------
(* The parallel executor: parallel.py *)

\* the empty dict
EmptyMap == [p \in {} |-> 0]

\* the locals of a dispatcher call that has not been made yet
IdleRun ==
    [pc |-> "idle", source |-> "none", limit |-> NoInt,
     max_workers |-> NoInt, progress_callback |-> FALSE,
     pending_inputs |-> <<>>, marked |-> 0, claimed |-> {},
     file_paths |-> <<>>, input_map |-> EmptyMap,
     futures |-> <<>>, outcome |-> <<>>,
     order |-> <<>>, results |-> <<>>, succeeded |-> 0, failed |-> 0,
     pipeline_input |-> <<>>, finalized |-> {}, calls |-> <<>>,
     ret |-> <<>>]

\* ParallelExecutionResult(total, succeeded, failed, results)
ParallelExecutionResult(total, succeeded, failed, results) ==
    [total |-> total, succeeded |-> succeeded, failed |-> failed,
     results |-> results]

\* a number as the quotient num / den it denotes; the rounding of the float
\* that holds it is not represented
Rational(num, den) == [num |-> num, den |-> den]

\* a / b of two ints (true division)
divide(a, b) == Rational(a, b)

\* q * n
times(q, n) == Rational(q.num * n, q.den)

\* success_rate as succeeded / total, the factor 100 left out
success_rate_fraction(result) ==
    IF result.total = 0 THEN Rational(0, 1)
    ELSE divide(result.succeeded, result.total)

\* ParallelExecutionResult.success_rate
success_rate(result) ==
    IF result.total = 0 THEN Rational(0, 1)
    ELSE times(divide(result.succeeded, result.total), 100)

\* get_max_workers with `return min(requested, cpu_count)` alone, the test
\* for requested < 1 left out
get_max_workers_uncapped(requested, cpus) ==
    IF requested = NoInt THEN cpus
    ELSE IF requested[1] < cpus THEN requested[1] ELSE cpus

\* the body of get_max_workers on a machine of cpus processors
get_max_workers_on(requested, cpus) ==
    IF requested = NoInt THEN cpus
    ELSE IF requested[1] < 1 THEN 1
    ELSE IF requested[1] < cpus THEN requested[1] ELSE cpus

\* get_max_workers
get_max_workers(requested) == get_max_workers_on(requested, cpu_count)

\* the error text a worker outcome carries (str(e), JobResult.error); the
\* exception raised inside the worker is one with an empty message
ErrorText(o) ==
    CASE o = "success" -> NoneV
      [] o = "failure" -> "job failed"
      [] o = "raise"   -> ""
      [] o = "broken"  -> "process pool broken"

\* _run_single_pipeline: the dict the worker returns for file_path when its
\* run_pipeline call ends as o (success, failure or raise)
run_single_pipeline(file_path, o) ==
    [file_path |-> file_path,
     success |-> (o = "success"),
     error |-> ErrorText(o),
     output |-> IF o = "success" THEN "output" ELSE NoneV]

\* future.result() outside any try: the exception of a broken future leaves
\* the loop
future_result_uncaught(file_path, o) ==
    IF o = "broken"
    THEN [raised |-> TRUE,
          result |-> [file_path |-> file_path, success |-> FALSE,
                      error |-> ErrorText(o), output |-> NoneV]]
    ELSE [raised |-> FALSE, result |-> run_single_pipeline(file_path, o)]

\* the try/except around future.result(): the worker's dict, or the failed
\* dict built for a future that raised; raised says whether the exception
\* leaves the loop
future_result(file_path, o) ==
    IF o = "broken"
    THEN [raised |-> FALSE,
          result |-> [file_path |-> file_path, success |-> FALSE,
                      error |-> ErrorText(o), output |-> NoneV]]
    ELSE [raised |-> FALSE, result |-> run_single_pipeline(file_path, o)]

\* succeeded after one more result
count_succeeded(succeeded, result) ==
    IF result.success THEN succeeded + 1 ELSE succeeded

\* failed counts only the results a worker returned, not the dict built
\* for a future that raised
count_failed_returned(failed, result) ==
    IF result.success \/ result.error = ErrorText("broken")
    THEN failed ELSE failed + 1

\* failed after one more result
count_failed(failed, result) ==
    IF result.success THEN failed ELSE failed + 1

\* the loop over pending_inputs left after its first pass
all_marked_after_first(run) == run.marked >= 1

\* the for loop over pending_inputs has marked every item
all_marked(run) == run.marked >= Len(run.pending_inputs)

\* input_map[str(file_path)] = pipeline_input.id
map_put(input_map, file_path, id) ==
    [p \in DOMAIN input_map \cup {file_path} |->
        IF p = file_path THEN id ELSE input_map[p]]

\* result["error"] or "Unknown error"
error_or_unknown(error) ==
    IF error = NoneV \/ error = "" THEN "Unknown error" ELSE error

\* _update_input_status after get_by_id: the instance as it is saved
update_input_status(instance, result) ==
    IF result.success
    THEN mark_completed(instance, NoneV)
    ELSE mark_failed(instance, error_or_unknown(result.error))

\* futures kept in a dict keyed by file path: a path listed again replaces
\* the future of its earlier position, which is never waited for
submit_by_path(run) ==
    [run EXCEPT !.pc = "pool",
                !.futures = [k \in 1..Len(run.file_paths) |->
                    IF \E j \in (k + 1)..Len(run.file_paths) :
                           run.file_paths[j] = run.file_paths[k]
                    THEN "collected" ELSE "queued"],
                !.outcome = [k \in 1..Len(run.file_paths) |-> "none"]]

\* executor.submit for every work item: all futures queued
submit_all(run) ==
    [run EXCEPT !.pc = "pool",
                !.futures = [k \in 1..Len(run.file_paths) |-> "queued"],
                !.outcome = [k \in 1..Len(run.file_paths) |-> "none"]]

Running(run) == {k \in DOMAIN run.futures : run.futures[k] = "running"}

\* `inputs add` of one file: initialize_database, then
\* PipelineInput.add_input, whose INSERT raises when the table is missing
Enqueue(file_path, priority, max) ==
    /\ Len(rows) < max
    /\ tables' = initialize_database(tables)
    /\ IF PipelineInputs \in initialize_database(tables)
       THEN /\ rows' = Append(rows, NewRow(Len(rows) + 1, file_path, priority))
            /\ inputs_add' = "added"
       ELSE /\ rows' = rows
            /\ inputs_add' = OperationalError
    /\ UNCHANGED <<runs, pipeline, flow, chain_vars>>

\* inputs retry-failed
ResetFailed ==
    /\ \E id \in DOMAIN rows : rows[id].status = FAILED
    /\ rows' = retry_failed(rows)
    /\ UNCHANGED <<runs, pipeline, flow, tables, inputs_add, chain_vars>>

\* inputs clear --status all: DELETE FROM pipeline_inputs; the next row
\* inserted into the emptied table gets id 1 again
Clear ==
    /\ rows # <<>>
    /\ rows' = <<>>
    /\ UNCHANGED <<runs, pipeline, flow, tables, inputs_add, chain_vars>>

\* run_parallel_from_database without `if not pending_inputs: return`: an
\* empty batch goes on to the marking loop and the pool
StartDatabaseNoEarlyReturn(r, limit, max_workers, cb) ==
    /\ runs[r].pc = "idle"
    /\ tables' = initialize_database(tables)
    /\ runs' = [runs EXCEPT ![r] =
          IF PipelineInputs \notin initialize_database(tables)
          THEN [runs[r] EXCEPT !.source = "database", !.pc = "raised"]
          ELSE [runs[r] EXCEPT !.source = "database", !.limit = limit,
                               !.max_workers = max_workers,
                               !.progress_callback = cb,
                               !.pending_inputs = get_pending(rows, limit),
                               !.pc = "mark"]]
    /\ UNCHANGED <<rows, pipeline, flow, inputs_add, chain_vars>>

\* run_parallel_from_database up to the first mark_processing:
\* initialize_database, get_pending (whose SELECT raises when the table is
\* missing) and the early return on an empty batch
StartDatabase(r, limit, max_workers, cb) ==
    /\ runs[r].pc = "idle"
    /\ tables' = initialize_database(tables)
    /\ LET pending_inputs == get_pending(rows, limit)
           run == [runs[r] EXCEPT !.source = "database", !.limit = limit,
                                  !.max_workers = max_workers,
                                  !.progress_callback = cb,
                                  !.pending_inputs = pending_inputs]
       IN  runs' = [runs EXCEPT ![r] =
                IF PipelineInputs \notin initialize_database(tables)
                THEN [runs[r] EXCEPT !.source = "database", !.pc = "raised"]
                ELSE IF pending_inputs = <<>>
                THEN [run EXCEPT !.pc = "returned",
                        !.ret = ParallelExecutionResult(0, 0, 0, <<>>)]
                ELSE [run EXCEPT !.pc = "mark"]]
    /\ UNCHANGED <<rows, pipeline, flow, inputs_add, chain_vars>>

\* one pass of the loop `for pipeline_input in pending_inputs`
MarkProcessing(r) ==
    LET run == runs[r]
        instance == mark_processing(run.pending_inputs[run.marked + 1])
    IN  /\ run.pc = "mark"
        /\ ~all_marked(run)
        /\ rows' = save(rows, instance)
        /\ runs' = [runs EXCEPT ![r] =
              [run EXCEPT !.marked = run.marked + 1,
                          !.claimed = run.claimed \cup {instance.id},
                          !.file_paths = Append(run.file_paths, instance.file_path),
                          !.input_map = map_put(run.input_map,
                                                instance.file_path, instance.id)]]
        /\ UNCHANGED <<pipeline, flow, tables, inputs_add, chain_vars>>

\* the call of run_parallel_from_files at the end of
\* run_parallel_from_database: every item is submitted to the pool
Dispatch(r) ==
    LET run == runs[r]
    IN  /\ run.pc = "mark"
        /\ all_marked(run)
        /\ runs' = [runs EXCEPT ![r] = submit_all(run)]
        /\ UNCHANGED <<rows, pipeline, flow, tables, inputs_add, chain_vars>>

\* run_parallel_from_files called by the user: early return on an empty
\* list, else every item is submitted to the pool
StartFiles(r, file_paths, max_workers, cb) ==
    /\ runs[r].pc = "idle"
    /\ LET run == [runs[r] EXCEPT !.source = "files",
                                  !.max_workers = max_workers,
                                  !.progress_callback = cb,
                                  !.file_paths = file_paths]
       IN  runs' = [runs EXCEPT ![r] =
                IF file_paths = <<>>
                THEN [run EXCEPT !.pc = "returned",
                        !.ret = ParallelExecutionResult(0, 0, 0, <<>>)]
                ELSE submit_all(run)]
    /\ UNCHANGED <<rows, pipeline, flow, tables, inputs_add, chain_vars>>

\* a pool that starts a process for every submitted item
WorkerStartUnbounded(r, k) ==
    LET run == runs[r]
    IN  /\ run.pc \in {"pool", "save", "notify"}
        /\ k \in DOMAIN run.futures
        /\ run.futures[k] = "queued"
        /\ runs' = [runs EXCEPT ![r] =
              [run EXCEPT !.futures[k] = "running"]]
        /\ UNCHANGED <<rows, pipeline, flow, tables, inputs_add, chain_vars>>

\* a pool process takes a queued item; at most `workers` execute at once
WorkerStart(r, k) ==
    LET run == runs[r]
    IN  /\ run.pc \in {"pool", "save", "notify"}
        /\ k \in DOMAIN run.futures
        /\ run.futures[k] = "queued"
        /\ Cardinality(Running(run)) < get_max_workers(run.max_workers)
        /\ runs' = [runs EXCEPT ![r] =
              [run EXCEPT !.futures[k] = "running"]]
        /\ UNCHANGED <<rows, pipeline, flow, tables, inputs_add, chain_vars>>

\* a worker that writes the final status of its item itself before it ends
WorkerFinishWrites(r, k) ==
    LET run == runs[r]
    IN  /\ k \in DOMAIN run.futures
        /\ run.futures[k] = "running"
        /\ runs' = [runs EXCEPT ![r] = [run EXCEPT !.futures[k] = "done"]]
        /\ rows' = IF run.source = "database"
                   THEN save(rows, mark_completed(run.pending_inputs[k], NoneV))
                   ELSE rows
        /\ UNCHANGED <<pipeline, flow, tables, inputs_add, chain_vars>>

\* the worker of item k ends and its future is done
WorkerFinish(r, k) ==
    LET run == runs[r]
    IN  /\ k \in DOMAIN run.futures
        /\ run.futures[k] = "running"
        /\ runs' = [runs EXCEPT ![r] = [run EXCEPT !.futures[k] = "done"]]
        /\ UNCHANGED <<rows, pipeline, flow, tables, inputs_add, chain_vars>>

\* what follows the progress callback of the last collected result: the
\* next pass of the as_completed loop
after_callback(run) == [run EXCEPT !.pc = "pool"]

\* one pass of `for i, future in enumerate(as_completed(...), 1)` up to the
\* progress callback, for the done future k, which ended as o; for a
\* database run the callback's first statement, PipelineInput.get_by_id, is
\* part of the step
Collect(r, k, o) ==
    LET run == runs[r]
        got == future_result(run.file_paths[k], o)
        result == got.result
        counted == [run EXCEPT !.futures[k] = "collected",
                        !.outcome[k] = o,
                        !.order = Append(run.order, k),
                        !.results = Append(run.results, result),
                        !.succeeded = count_succeeded(run.succeeded, result),
                        !.failed = count_failed(run.failed, result)]
    IN  /\ run.pc = "pool"
        /\ k \in DOMAIN run.futures
        /\ run.futures[k] = "done"
        /\ runs' = [runs EXCEPT ![r] =
              IF got.raised THEN [run EXCEPT !.pc = "raised"]
              ELSE IF run.source = "database"
                      /\ result.file_path \in DOMAIN run.input_map
              THEN IF run.input_map[result.file_path] \in DOMAIN rows
                   THEN [counted EXCEPT !.pc = "save",
                            !.pipeline_input =
                                rows[run.input_map[result.file_path]]]
                   ELSE [counted EXCEPT !.pc = "raised"]
              ELSE IF run.progress_callback
              THEN [counted EXCEPT !.pc = "notify"]
              ELSE after_callback(counted)]
        /\ UNCHANGED <<rows, pipeline, flow, tables, inputs_add, chain_vars>>

\* _update_input_status after get_by_id: mark_completed or mark_failed and
\* its save()
SaveStatus(r) ==
    LET run == runs[r]
        result == run.results[Len(run.results)]
        instance == update_input_status(run.pipeline_input, result)
    IN  /\ run.pc = "save"
        /\ rows' = save(rows, instance)
        /\ runs' = [runs EXCEPT ![r] =
              LET saved == [run EXCEPT
                               !.finalized = run.finalized \cup {instance.id}]
              IN  IF run.progress_callback
                  THEN [saved EXCEPT !.pc = "notify"]
                  ELSE after_callback(saved)]
        /\ UNCHANGED <<pipeline, flow, tables, inputs_add, chain_vars>>

\* the progress callback with completed counted from 0, as enumerate does
\* without its start argument
NotifyFromZero(r) ==
    LET run == runs[r]
        result == run.results[Len(run.results)]
    IN  /\ run.pc = "notify"
        /\ runs' = [runs EXCEPT ![r] =
              after_callback([run EXCEPT !.calls = Append(run.calls,
                  [completed |-> Len(run.results) - 1,
                   total |-> Len(run.file_paths),
                   file_path |-> result.file_path,
                   success |-> result.success,
                   status |-> NoneV,
                   item_status |-> NoneV,
                   item_finalized |-> FALSE])])]
        /\ UNCHANGED <<rows, pipeline, flow, tables, inputs_add, chain_vars>>

\* the user's progress callback (completed, total, result); for a database
\* run the call records the status the queue row of the result has then,
\* the status of the row of the item the result belongs to, and whether
\* that row has been given its final status by this run
Notify(r) ==
    LET run == runs[r]
        result == run.results[Len(run.results)]
        item == run.pending_inputs[run.order[Len(run.order)]].id
        seen == IF run.source = "database"
                   /\ result.file_path \in DOMAIN run.input_map
                   /\ run.input_map[result.file_path] \in DOMAIN rows
                THEN rows[run.input_map[result.file_path]].status
                ELSE NoneV
    IN  /\ run.pc = "notify"
        /\ runs' = [runs EXCEPT ![r] =
              after_callback([run EXCEPT !.calls = Append(run.calls,
                  [completed |-> Len(run.results),
                   total |-> Len(run.file_paths),
                   file_path |-> result.file_path,
                   success |-> result.success,
                   status |-> seen,
                   item_status |->
                       IF run.source = "database" /\ item \in DOMAIN rows
                       THEN rows[item].status ELSE NoneV,
                   item_finalized |->
                       run.source = "database" /\ item \in run.finalized])])]
        /\ UNCHANGED <<rows, pipeline, flow, tables, inputs_add, chain_vars>>

\* as_completed is exhausted, the pool is shut down and the result returned
Return(r) ==
    LET run == runs[r]
    IN  /\ run.pc = "pool"
        /\ \A k \in DOMAIN run.futures : run.futures[k] = "collected"
        /\ runs' = [runs EXCEPT ![r] =
              [run EXCEPT !.pc = "returned",
                  !.ret = ParallelExecutionResult(Len(run.file_paths),
                            run.succeeded, run.failed, run.results)]]
        /\ UNCHANGED <<rows, pipeline, flow, tables, inputs_add, chain_vars>>

-----------------------------------------------------------------------------
(* Jobs: jobs/base.py *)

\* Data handed from step to step is a term: the list of what was done to
\* the caller's input so far.  <<>> is None.
NoData == <<>>
InputValue(x) == << <<"input", x>> >>

\* what validate_input returns for raw input: the typed input
validate_input(job_name, raw_input) ==
    Append(raw_input, <<"validated", job_name>>)

\* what single_job returns for a validated input
single_job(job_name, validated_input) ==
    Append(validated_input, <<"output", job_name>>)

\* How one job instance behaves when it is executed:
\*   ok          validate_input and single_job return
\*   invalid     validate_input raises ValidationError
\*   error       single_job raises
\*   init_error  the job's constructor raises (create_instance)
\*   ok_none     validate_input returns and single_job returns None
Behaviours == {"ok", "invalid", "error", "init_error", "ok_none"}

\* what single_job of a job behaving as b returns
single_job_output(job_name, validated_input, b) ==
    IF b = "ok_none" THEN NoData ELSE single_job(job_name, validated_input)

\* str(e) of the exception a job raises
Message(b) ==
    CASE b = "invalid" -> "Validation error: bad input"
      [] b = "error"   -> "job failed"
      [] OTHER         -> NoneV

\* type(e).__name__ of the exception a job raises
ErrorType(b) ==
    CASE b = "invalid" -> "ValidationError"
      [] b = "error"   -> "RuntimeError"
      [] OTHER         -> NoneV

\* JobResult(success, output, error, metadata)
JobResult(success, output, error, job_name, error_type) ==
    [success |-> success, output |-> output, error |-> error,
     job_name |-> job_name, error_type |-> error_type]

\* a call of a job's method, as the trace records it
Event(op, job_name, data) == [op |-> op, job |-> job_name, data |-> data]

\* BaseJob.execute with the try around validate_input only: what single_job
\* raises leaves execute
execute_run_uncaught(job_name, raw_input, b) ==
    IF b = "invalid"
    THEN [raised |-> FALSE,
          result |-> JobResult(FALSE, NoData, Message(b), job_name, ErrorType(b)),
          calls |-> <<Event("validate_input", job_name, raw_input)>>]
    ELSE LET validated_input == validate_input(job_name, raw_input)
             calls == <<Event("validate_input", job_name, raw_input),
                        Event("single_job", job_name, validated_input)>>
         IN  [raised |-> (b = "error"),
              result |-> JobResult(TRUE,
                                   single_job_output(job_name, validated_input, b),
                                   NoneV, job_name, NoneV),
              calls |-> calls]

\* BaseJob.execute with single_job called outside the try that guards
\* validate_input: it runs, on the raw input, also after validation failed
execute_run_anyway(job_name, raw_input, b) ==
    IF b = "invalid"
    THEN [raised |-> FALSE,
          result |-> JobResult(FALSE, NoData, Message(b), job_name, ErrorType(b)),
          calls |-> <<Event("validate_input", job_name, raw_input),
                      Event("single_job", job_name, raw_input)>>]
    ELSE LET validated_input == validate_input(job_name, raw_input)
             calls == <<Event("validate_input", job_name, raw_input),
                        Event("single_job", job_name, validated_input)>>
         IN  IF b = "error"
             THEN [raised |-> FALSE,
                   result |-> JobResult(FALSE, NoData, Message(b), job_name,
                                        ErrorType(b)),
                   calls |-> calls]
             ELSE [raised |-> FALSE,
                   result |-> JobResult(TRUE,
                                single_job_output(job_name, validated_input, b),
                                NoneV, job_name, NoneV),
                   calls |-> calls]

\* BaseJob.execute: validate_input, then single_job, every Exception caught.
\* raised: an exception leaves execute; calls: the methods it invoked
execute(job_name, raw_input, b) ==
    IF b = "invalid"
    THEN [raised |-> FALSE,
          result |-> JobResult(FALSE, NoData, Message(b), job_name, ErrorType(b)),
          calls |-> <<Event("validate_input", job_name, raw_input)>>]
    ELSE LET validated_input == validate_input(job_name, raw_input)
             calls == <<Event("validate_input", job_name, raw_input),
                        Event("single_job", job_name, validated_input)>>
         IN  IF b = "error"
             THEN [raised |-> FALSE,
                   result |-> JobResult(FALSE, NoData, Message(b), job_name,
                                        ErrorType(b)),
                   calls |-> calls]
             ELSE [raised |-> FALSE,
                   result |-> JobResult(TRUE,
                                single_job_output(job_name, validated_input, b),
                                NoneV, job_name, NoneV),
                   calls |-> calls]

-----------------------------------------------------------------------------
(* The chain and its runner: pipeline/flows.py *)

\* step names a caller may use
StepNames == {"A", "B", "C", "D"}
\* a name no chain of the model holds
UnknownName == "Z"

\* JobSpec(name, job_class)
JobSpec(name) == [name |-> name, job_class |-> <<"Job", name>>]

\* PipelineDefinition.__init__; error is the exception of the last add_job
EmptyPipeline == [_jobs |-> <<>>, _job_index |-> EmptyMap, error |-> NoneV]

\* add_job without the test for a name that is already there: the step is
\* appended again and the index of the name moves to the new position
add_job_unchecked(pd, name) ==
    [_jobs |-> Append(pd._jobs, JobSpec(name)),
     _job_index |-> map_put(pd._job_index, name, Len(pd._jobs)),
     error |-> NoneV]

\* add_job with the index taken after the append: every name is indexed
\* one position too far
add_job_index_after(pd, name) ==
    IF name \in DOMAIN pd._job_index
    THEN [pd EXCEPT !.error = "ValueError"]
    ELSE [_jobs |-> Append(pd._jobs, JobSpec(name)),
          _job_index |-> map_put(pd._job_index, name, Len(pd._jobs) + 1),
          error |-> NoneV]

\* PipelineDefinition.add_job
add_job(pd, name) ==
    IF name \in DOMAIN pd._job_index
    THEN [pd EXCEPT !.error = "ValueError"]
    ELSE [_jobs |-> Append(pd._jobs, JobSpec(name)),
          _job_index |-> map_put(pd._job_index, name, Len(pd._jobs)),
          error |-> NoneV]

\* the messages of the ValueErrors the chain raises
UnknownJob == "Unknown job"
MustComeBefore == "start_from must come before stop_after"

\* PipelineDefinition.get_job_index
get_job_index(pd, name) ==
    IF name \notin DOMAIN pd._job_index
    THEN [raised |-> TRUE, index |-> 0, message |-> UnknownJob]
    ELSE [raised |-> FALSE, index |-> pd._job_index[name], message |-> NoneV]

\* PipelineDefinition.get_job: self._jobs[self.get_job_index(name)]
get_job(pd, name) ==
    LET found == get_job_index(pd, name)
    IN  IF found.raised
        THEN [raised |-> TRUE, job |-> JobSpec(NoneV), message |-> found.message]
        ELSE IF found.index + 1 \notin DOMAIN pd._jobs
        THEN [raised |-> TRUE, job |-> JobSpec(NoneV), message |-> "IndexError"]
        ELSE [raised |-> FALSE, job |-> pd._jobs[found.index + 1], message |-> NoneV]

\* self._jobs[start_idx:], the stop index forgotten
SliceToEnd(jobs, start_idx, stop_idx) == SubSeq(jobs, start_idx + 1, Len(jobs))

\* self._jobs[start_idx:stop_idx], the step at the stop index left out
SliceExclusive(jobs, start_idx, stop_idx) ==
    SubSeq(jobs, start_idx + 1, IF stop_idx < Len(jobs) THEN stop_idx ELSE Len(jobs))

\* self._jobs[start_idx:stop_idx + 1], indices counted from 0
Slice(jobs, start_idx, stop_idx) ==
    SubSeq(jobs, start_idx + 1, IF stop_idx + 1 < Len(jobs) THEN stop_idx + 1 ELSE Len(jobs))

\* PipelineDefinition.get_jobs_in_range; NoneV stands for an omitted name
get_jobs_in_range(pd, start_from, stop_after) ==
    IF pd._jobs = <<>> THEN [raised |-> FALSE, jobs |-> <<>>, message |-> NoneV]
    ELSE LET start == IF start_from = NoneV
                      THEN [raised |-> FALSE, index |-> 0, message |-> NoneV]
                      ELSE get_job_index(pd, start_from)
             stop == IF stop_after = NoneV
                     THEN [raised |-> FALSE, index |-> Len(pd._jobs) - 1,
                           message |-> NoneV]
                     ELSE get_job_index(pd, stop_after)
         IN  IF start.raised
             THEN [raised |-> TRUE, jobs |-> <<>>, message |-> start.message]
             ELSE IF stop.raised
             THEN [raised |-> TRUE, jobs |-> <<>>, message |-> stop.message]
             ELSE IF start.index > stop.index
             THEN [raised |-> TRUE, jobs |-> <<>>, message |-> MustComeBefore]
             ELSE [raised |-> FALSE,
                   jobs |-> Slice(pd._jobs, start.index, stop.index),
                   message |-> NoneV]

\* the locals of a run_pipeline call that has not been made yet
IdleFlow ==
    [pc |-> "idle", input_data |-> NoData, start_from |-> NoneV,
     stop_after |-> NoneV, jobs_to_run |-> <<>>, i |-> 0,
     current_data |-> NoData, results |-> <<>>, trace |-> <<>>,
     behaviours |-> <<>>,
     result |-> JobResult(FALSE, NoData, NoneV, NoneV, NoneV),
     error |-> NoneV, message |-> NoneV]

\* job_task of make_job_task: create_instance, then execute
job_task(spec, input_data, b) ==
    IF b = "init_error"
    THEN [raised |-> TRUE,
          result |-> JobResult(FALSE, NoData, NoneV, NoneV, NoneV),
          calls |-> <<Event("create_instance", spec.name, NoData)>>]
    ELSE LET done == execute(spec.name, input_data, b)
         IN  [done EXCEPT !.calls =
                 <<Event("create_instance", spec.name, NoData)>> \o done.calls]

\* the loop goes on after a step whose input did not validate
stops_unless_invalid(result) ==
    ~result.success /\ result.error_type # "ValidationError"

\* `if not result.success: return result`
stops(result) == ~result.success

\* the next step gets the input of this one again
same_data(current_data, result) == current_data

\* `current_data = result.output`
next_data(current_data, result) == result.output

\* PipelineDefinition.add_job called while the chain is configured
AddJob(name, max) ==
    /\ flow.pc = "idle"
    /\ Len(pipeline._jobs) < max
    /\ pipeline' = add_job(pipeline, name)
    /\ UNCHANGED <<rows, runs, flow, tables, inputs_add, chain_vars>>

\* run_pipeline returning JobResult(success=True) for an empty range, the
\* input not handed back
StartFlowEmptyNoOutput(input_data, start_from, stop_after) ==
    /\ flow.pc = "idle"
    /\ LET range == get_jobs_in_range(pipeline, start_from, stop_after)
           f == [flow EXCEPT !.input_data = input_data,
                             !.start_from = start_from,
                             !.stop_after = stop_after,
                             !.jobs_to_run = range.jobs]
       IN  flow' =
             IF range.raised
             THEN [f EXCEPT !.pc = "raised", !.error = "ValueError",
                            !.message = range.message]
             ELSE IF range.jobs = <<>>
             THEN [f EXCEPT !.pc = "returned",
                      !.result = JobResult(TRUE, NoData, NoneV, NoneV, NoneV)]
             ELSE [f EXCEPT !.pc = "loop", !.current_data = input_data]
    /\ UNCHANGED <<rows, runs, pipeline, tables, inputs_add, chain_vars>>

\* run_pipeline up to its loop: the range is resolved, an empty range
\* returns the input as a successful JobResult
StartFlow(input_data, start_from, stop_after) ==
    /\ flow.pc = "idle"
    /\ LET range == get_jobs_in_range(pipeline, start_from, stop_after)
           f == [flow EXCEPT !.input_data = input_data,
                             !.start_from = start_from,
                             !.stop_after = stop_after,
                             !.jobs_to_run = range.jobs]
       IN  flow' =
             IF range.raised
             THEN [f EXCEPT !.pc = "raised", !.error = "ValueError",
                            !.message = range.message]
             ELSE IF range.jobs = <<>>
             THEN [f EXCEPT !.pc = "returned",
                      !.result = JobResult(TRUE, input_data, NoneV, NoneV, NoneV)]
             ELSE [f EXCEPT !.pc = "loop", !.current_data = input_data]
    /\ UNCHANGED <<rows, runs, pipeline, tables, inputs_add, chain_vars>>

\* one pass of `for i, spec in enumerate(jobs_to_run)`, the job behaving as b
StepFlow(b) ==
    /\ flow.pc = "loop"
    /\ LET spec == flow.jobs_to_run[flow.i + 1]
           done == job_task(spec, flow.current_data, b)
           f == [flow EXCEPT !.trace = flow.trace \o done.calls,
                             !.behaviours = Append(flow.behaviours, b)]
       IN  flow' =
             IF done.raised
             THEN [f EXCEPT !.pc = "raised", !.error = "Exception"]
             ELSE LET g == [f EXCEPT !.result = done.result,
                                     !.results = Append(flow.results, done.result)]
                  IN  IF stops(done.result)
                      THEN [g EXCEPT !.pc = "returned"]
                      ELSE IF flow.i + 1 = Len(flow.jobs_to_run)
                      THEN [g EXCEPT !.pc = "returned",
                                     !.current_data =
                                         next_data(flow.current_data, done.result),
                                     !.i = flow.i + 1]
                      ELSE [g EXCEPT !.current_data =
                                         next_data(flow.current_data, done.result),
                                     !.i = flow.i + 1]
    /\ UNCHANGED <<rows, runs, pipeline, tables, inputs_add, chain_vars>>

-----------------------------------------------------------------------------
(* The default chain A -> B -> C: jobs/job_a.py, job_b.py, job_c.py *)

\* the processes that run the default chain side by side
Workers == {"w1", "w2"}

\* a path: its directory, its stem and its suffix
Path(dir, stem, suffix) == [dir |-> dir, stem |-> stem, suffix |-> suffix]

\* the input files on disk and their lines; "" is a blank line
DiskFiles ==
    (Path("in", "a", ".txt") :> <<"x">>) @@
    (Path("in2", "a", ".txt") :> <<"y", "", "z">>) @@
    (Path("in", "b", ".txt") :> <<>>) @@
    (Path("in", "c", ".md") :> <<"w">>)

\* a path no file is at
MissingFile == Path("in", "none", ".txt")

\* the paths a caller passes as input of a full run
FilePaths == DOMAIN DiskFiles \cup {MissingFile}

\* JobA.ALLOWED_EXTENSIONS
ALLOWED_EXTENSIONS == {".txt", ".csv", ".json"}

\* validate_file_path(file_path, must_exist=True, allowed_extensions) over
\* the files that exist
validate_file_path(file_path, existing, allowed_extensions) ==
    IF file_path \notin existing
    THEN [ok |-> FALSE, error |-> "Validation error for file_path: File does not exist"]
    ELSE IF file_path.suffix \notin allowed_extensions
    THEN [ok |-> FALSE, error |-> "Validation error for file_path: Invalid file extension"]
    ELSE [ok |-> TRUE, error |-> NoneV]

RECURSIVE lstrip(_)
\* the lines without the blank lines at their start
lstrip(lines) ==
    IF lines # <<>> /\ Head(lines) = "" THEN lstrip(Tail(lines)) ELSE lines

RECURSIVE rstrip(_)
\* the lines without the blank lines at their end
rstrip(lines) ==
    IF lines # <<>> /\ lines[Len(lines)] = ""
    THEN rstrip(SubSeq(lines, 1, Len(lines) - 1)) ELSE lines

\* content.strip().split('\n'): an empty content gives one empty line
strip_split(lines) ==
    LET stripped == rstrip(lstrip(lines))
    IN  IF stripped = <<>> THEN <<"">> ELSE stripped

RECURSIVE records_from(_, _)
\* the loop of _process_content from line i on: one record per line that
\* is not blank, named after the line's index
records_from(lines, i) ==
    IF i > Len(lines) THEN <<>>
    ELSE (IF lines[i] # ""
          THEN <<[name |-> <<"record", i - 1>>, value |-> lines[i],
                  line_number |-> i]>>
          ELSE <<>>) \o records_from(lines, i + 1)

\* JobA._process_content
process_content(content, source_path) ==
    LET lines == strip_split(content)
        recs == records_from(lines, 1)
    IN  [source_file |-> source_path, records |-> recs,
         processed_at |-> Now, total_lines |-> Len(lines),
         non_empty_lines |-> Len(recs)]

\* the output directory of the configuration, shared by every worker
OutputDirectory == "output"

\* JobA._write_output: output_dir / f"{source_path.stem}_processed.json"
output_path_of(source_path) ==
    Path(OutputDirectory, source_path.stem \o "_processed", ".json")

\* a file that open(path, 'w') has truncated and json.dump has not yet
\* written: not JSON
Truncated(item) == [json |-> FALSE, data |-> NoData, written_by |-> item]

\* a file json.dump has written
Dumped(data, item) == [json |-> TRUE, data |-> data, written_by |-> item]

\* the directory after a file of it was written
write_file(dir, path, content) ==
    [p \in DOMAIN dir \cup {path} |-> IF p = path THEN content ELSE dir[p]]

\* validate_processed_data for a path: the file must exist, end in .json
\* and hold JSON
validate_processed_data(dir, path) ==
    LET valid == validate_file_path(path, DOMAIN dir, {".json"})
    IN  IF ~valid.ok THEN valid
        ELSE IF ~dir[path].json
        THEN [ok |-> FALSE, error |-> "Validation error for data: Invalid JSON in file"]
        ELSE [ok |-> TRUE, error |-> NoneV]

\* no transaction is open
NoTransaction == [owner |-> NoneV, batches |-> <<>>, records |-> <<>>]

\* every statement committed by itself, as without `with db.atomic()`
autocommit(committed, written) == written

\* what other connections find in a table after a statement inside
\* `with db.atomic()`: the committed rows, not the written ones
atomic(committed, written) == committed

\* ProcessingBatch.create(source_file, status="processing", record_count=0)
new_batch(table, source_file, item) ==
    [id |-> Len(table) + 1, source_file |-> source_file,
     status |-> "processing", record_count |-> 0,
     item |-> item, finalizations |-> 0]

\* ProcessedRecord.create(batch, name, value, is_finalized=False)
new_record(table, batch, record_data, item) ==
    [id |-> Len(table) + 1, batch |-> batch, name |-> record_data.name,
     value |-> record_data.value, is_finalized |-> FALSE, item |-> item]

\* validate_database_record_id: None and what is below 1 are refused
validate_database_record_id(record_id) ==
    IF record_id = NoInt
    THEN [ok |-> FALSE, error |-> "Validation error for record_id: Record ID cannot be None"]
    ELSE IF record_id[1] < 1
    THEN [ok |-> FALSE, error |-> "Validation error for record_id: Record ID must be positive"]
    ELSE [ok |-> TRUE, error |-> NoneV]

\* JobC.validate_input: the batch must exist, be completed and hold records
validate_batch(table, input_data) ==
    LET valid == validate_database_record_id(input_data)
    IN  IF ~valid.ok THEN valid
        ELSE IF input_data[1] \notin DOMAIN table
        THEN [ok |-> FALSE, error |-> "Validation error for batch_id: Batch does not exist"]
        ELSE IF table[input_data[1]].status # "completed"
        THEN [ok |-> FALSE, error |-> "Validation error for batch_id: Batch is not ready"]
        ELSE IF table[input_data[1]].record_count = 0
        THEN [ok |-> FALSE, error |-> "Validation error for batch_id: Batch has no records to process"]
        ELSE [ok |-> TRUE, error |-> NoneV]

\* the records JobC.single_job selects: those of the batch not yet finalized
to_finalize(table, batch_id) ==
    {i \in DOMAIN table : table[i].batch = batch_id /\ ~table[i].is_finalized}

\* the loop of JobC.single_job: record.is_finalized = True; record.save()
finalize_records(table, batch_id) ==
    [i \in DOMAIN table |->
        IF i \in to_finalize(table, batch_id)
        THEN [table[i] EXCEPT !.is_finalized = TRUE] ELSE table[i]]

\* batch.status = "finalized"; batch.save()
finalize_batch(table, batch_id) ==
    [table EXCEPT ![batch_id] =
        [@ EXCEPT !.status = "finalized",
                  !.finalizations = @ + 1]]

\* JobCResult(batch_id, records_finalized, status)
JobCResult(batch_id, records_finalized, status) ==
    [batch_id |-> batch_id, records_finalized |-> records_finalized,
     status |-> status]

\* the locals of a worker that runs no chain
IdleWorker ==
    [pc |-> "idle", item |-> 0, start_from |-> NoneV,
     input_data |-> <<>>, output_path |-> <<>>, processed_data |-> <<>>,
     data |-> <<>>, read_from |-> 0, batch |-> 0, records_created |-> 0,
     batch_id |-> 0, failed_in |-> NoneV, result |-> <<>>]

\* the run ends with the failing JobResult of job_name
Failed(worker, job_name, step, error, error_type) ==
    [worker EXCEPT !.pc = "done", !.failed_in = step,
                   !.result = JobResult(FALSE, NoData, error, job_name, error_type)]

\* PipelineRunner.run_full(file_path) in worker w: JobA.execute up to
\* _write_output (validate_input, _read_input_file, _process_content)
RunFull(w, file_path, max) ==
    LET valid == validate_file_path(file_path, DOMAIN DiskFiles, ALLOWED_EXTENSIONS)
        started == [IdleWorker EXCEPT !.item = chain_runs + 1,
                                      !.start_from = "A",
                                      !.input_data = file_path]
    IN  /\ processes[w].pc \in {"idle", "done"}
        /\ chain_runs < max
        /\ chain_runs' = chain_runs + 1
        /\ processes' = [processes EXCEPT ![w] =
              IF ~valid.ok
              THEN Failed(started, "JobA", "A_validate", valid.error, "ValidationError")
              ELSE [started EXCEPT
                      !.pc = "A_open",
                      !.processed_data = process_content(DiskFiles[file_path], file_path),
                      !.output_path = output_path_of(file_path)]]
        /\ UNCHANGED <<rows, runs, pipeline, flow, tables, inputs_add,
                       output_dir, batches, records, transaction>>

\* _write_output: open(output_path, 'w') truncates the file
OpenOutput(w) ==
    LET worker == processes[w]
    IN  /\ worker.pc = "A_open"
        /\ output_dir' = write_file(output_dir, worker.output_path,
                                    Truncated(worker.item))
        /\ processes' = [processes EXCEPT ![w] = [worker EXCEPT !.pc = "A_dump"]]
        /\ UNCHANGED <<rows, runs, pipeline, flow, tables, inputs_add,
                       batches, records, transaction, chain_runs>>

\* _write_output: json.dump(data, f); JobA returns output_path, which
\* run_pipeline hands to JobB
DumpOutput(w) ==
    LET worker == processes[w]
    IN  /\ worker.pc = "A_dump"
        /\ output_dir' = write_file(output_dir, worker.output_path,
                                    Dumped(worker.processed_data, worker.item))
        /\ processes' = [processes EXCEPT ![w] = [worker EXCEPT !.pc = "B_validate"]]
        /\ UNCHANGED <<rows, runs, pipeline, flow, tables, inputs_add,
                       batches, records, transaction, chain_runs>>

\* JobB.validate_input(output_path): the file is read and parsed
ValidateProcessed(w) ==
    LET worker == processes[w]
        valid == validate_processed_data(output_dir, worker.output_path)
    IN  /\ worker.pc = "B_validate"
        /\ processes' = [processes EXCEPT ![w] =
              IF ~valid.ok
              THEN Failed(worker, "JobB", "B_validate", valid.error, "ValidationError")
              ELSE [worker EXCEPT
                      !.pc = "B_create",
                      !.data = output_dir[worker.output_path].data,
                      !.read_from = output_dir[worker.output_path].written_by]]
        /\ UNCHANGED <<rows, runs, pipeline, flow, tables, inputs_add,
                       output_dir, batches, records, transaction, chain_runs>>

\* JobB.single_job: `with db.atomic()` is entered and the batch created;
\* the first write takes the write lock of the database file
CreateBatch(w) ==
    LET worker == processes[w]
        batch == new_batch(batches, worker.data.source_file, worker.item)
        written == Append(batches, batch)
    IN  /\ worker.pc = "B_create"
        /\ transaction.owner = NoneV
        /\ transaction' = [owner |-> w, batches |-> written, records |-> records]
        /\ batches' = atomic(batches, written)
        /\ processes' = [processes EXCEPT ![w] =
              [worker EXCEPT !.pc = "B_record", !.batch = batch.id,
                             !.records_created = 0]]
        /\ UNCHANGED <<rows, runs, pipeline, flow, tables, inputs_add,
                       output_dir, records, chain_runs>>

\* one pass of `for record_data in input_data['records']`
CreateRecord(w) ==
    LET worker == processes[w]
        record == new_record(transaction.records, worker.batch,
                             worker.data.records[worker.records_created + 1],
                             worker.item)
        written == Append(transaction.records, record)
    IN  /\ worker.pc = "B_record"
        /\ worker.records_created < Len(worker.data.records)
        /\ transaction' = [transaction EXCEPT !.records = written]
        /\ records' = atomic(records, written)
        /\ processes' = [processes EXCEPT ![w] =
              [worker EXCEPT !.records_created = @ + 1]]
        /\ UNCHANGED <<rows, runs, pipeline, flow, tables, inputs_add,
                       output_dir, batches, chain_runs>>

\* an exception inside the with block of JobB.single_job, after the batch
\* row was created: the transaction is rolled back and execute returns the
\* failing JobResult
RaiseInBatch(w) ==
    LET worker == processes[w]
    IN  /\ worker.pc = "B_record"
        /\ transaction' = NoTransaction
        /\ processes' = [processes EXCEPT ![w] =
              Failed(worker, "JobB", "B_job", "database error", "DatabaseError")]
        /\ UNCHANGED <<rows, runs, pipeline, flow, tables, inputs_add,
                       output_dir, batches, records, chain_runs>>

\* the end of JobB.single_job: record_count and status are saved and the
\* transaction commits; run_pipeline hands batch.id to JobC
SaveBatch(w) ==
    LET worker == processes[w]
        written == [transaction.batches EXCEPT ![worker.batch] =
                       [@ EXCEPT !.record_count = worker.records_created,
                                 !.status = "completed"]]
    IN  /\ worker.pc = "B_record"
        /\ worker.records_created = Len(worker.data.records)
        /\ batches' = written
        /\ records' = transaction.records
        /\ transaction' = NoTransaction
        /\ processes' = [processes EXCEPT ![w] =
              [worker EXCEPT !.pc = "C_validate",
                             !.batch_id = Some(worker.batch)]]
        /\ UNCHANGED <<rows, runs, pipeline, flow, tables, inputs_add,
                       output_dir, chain_runs>>

\* PipelineRunner.run_from("C", batch_id) in worker w
RunFromC(w, batch_id, max) ==
    /\ processes[w].pc \in {"idle", "done"}
    /\ chain_runs < max
    /\ chain_runs' = chain_runs + 1
    /\ processes' = [processes EXCEPT ![w] =
          [IdleWorker EXCEPT !.item = chain_runs + 1, !.start_from = "C",
                             !.pc = "C_validate", !.batch_id = batch_id]]
    /\ UNCHANGED <<rows, runs, pipeline, flow, tables, inputs_add,
                   output_dir, batches, records, transaction>>

\* JobC.validate_input(batch_id)
ValidateBatch(w) ==
    LET worker == processes[w]
        valid == validate_batch(batches, worker.batch_id)
    IN  /\ worker.pc = "C_validate"
        /\ processes' = [processes EXCEPT ![w] =
              IF ~valid.ok
              THEN Failed(worker, "JobC", "C_validate", valid.error, "ValidationError")
              ELSE [worker EXCEPT !.pc = "C_job"]]
        /\ UNCHANGED <<rows, runs, pipeline, flow, tables, inputs_add,
                       output_dir, batches, records, transaction, chain_runs>>

\* JobC.single_job: one transaction that finalizes the open records of the
\* batch and then the batch
FinalizeBatch(w) ==
    LET worker == processes[w]
        batch_id == worker.batch_id[1]
    IN  /\ worker.pc = "C_job"
        /\ transaction.owner = NoneV
        /\ records' = finalize_records(records, batch_id)
        /\ batches' = finalize_batch(batches, batch_id)
        /\ processes' = [processes EXCEPT ![w] =
              [worker EXCEPT
                 !.pc = "done",
                 !.result = JobResult(TRUE,
                     JobCResult(batch_id,
                                Cardinality(to_finalize(records, batch_id)),
                                "finalized"),
                     NoneV, "JobC", NoneV)]]
        /\ UNCHANGED <<rows, runs, pipeline, flow, tables, inputs_add,
                       output_dir, transaction, chain_runs>>

-----------------------------------------------------------------------------
(* Specifications of the parallel executor *)

\* the optional integers a caller passes as limit
Limits == {NoInt, Some(1)}
\* the optional integers a caller passes as max_workers
WorkerRequests == {NoInt, Some(1)}

RECURSIVE SeqsUpTo(_, _)
\* the sequences over S of length at most n
SeqsUpTo(S, n) ==
    IF n = 0 THEN {<<>>}
    ELSE LET shorter == SeqsUpTo(S, n - 1)
         IN  shorter \cup {Append(s, x) : s \in shorter, x \in S}

\* the database file a queue is served from: the queue table has been
\* created in it (no function of the package creates it; the test fixture
\* does, tests/conftest.py:59) beside the two that initialize_database makes
PreparedTables == {PipelineInputs, ProcessingBatches, ProcessedRecords}

InitQueue ==
    /\ rows = <<>>
    /\ runs = [r \in Runs |-> IdleRun]
    /\ tables = PreparedTables
    /\ inputs_add = NoneV

\* no output file, empty tables, no chain running
InitChain ==
    /\ output_dir = EmptyMap
    /\ batches = <<>>
    /\ records = <<>>
    /\ transaction = NoTransaction
    /\ processes = [w \in Workers |-> IdleWorker]
    /\ chain_runs = 0

InitFlow ==
    /\ pipeline = EmptyPipeline
    /\ flow = IdleFlow
    /\ InitChain

Init == InitQueue /\ InitFlow

\* one dispatcher, every way to call it and every way a worker can end,
\* with enqueue and retry-failed running beside it; a run over an explicit
\* file list never reads or writes the queue table, so it is explored over
\* the empty table only
Next ==
    \/ /\ runs["r1"].source # "files"
       /\ \E p \in Paths, pr \in Priorities : Enqueue(p, pr, MaxItems)
    \/ ResetFailed
    \/ \E l \in Limits, w \in WorkerRequests, cb \in BOOLEAN :
          StartDatabase("r1", l, w, cb)
    \/ /\ rows = <<>>
       /\ \E fp \in SeqsUpTo(Paths, MaxFiles), w \in WorkerRequests, cb \in BOOLEAN :
             StartFiles("r1", fp, w, cb)
    \/ MarkProcessing("r1")
    \/ Dispatch("r1")
    \/ \E k \in 1..MaxBatch : WorkerStart("r1", k)
    \/ \E k \in 1..MaxBatch : WorkerFinish("r1", k)
    \/ \E k \in 1..MaxBatch, o \in Outcomes : Collect("r1", k, o)
    \/ SaveStatus("r1")
    \/ Notify("r1")
    \/ Return("r1")

Spec == Init /\ [][Next]_vars

\* two dispatchers draining one queue at the same time, with enqueue and
\* retry-failed running beside them
NextConcurrent ==
    \/ \E p \in Paths : Enqueue(p, 0, MaxItemsConcurrent)
    \/ ResetFailed
    \/ \E r \in Runs : StartDatabase(r, NoInt, NoInt, FALSE)
    \/ \E r \in Runs : MarkProcessing(r)
    \/ \E r \in Runs : Dispatch(r)
    \/ \E r \in Runs, k \in 1..MaxItemsConcurrent : WorkerStart(r, k)
    \/ \E r \in Runs, k \in 1..MaxItemsConcurrent : WorkerFinish(r, k)
    \/ \E r \in Runs, k \in 1..MaxItemsConcurrent, o \in {"success", "failure"} :
          Collect(r, k, o)
    \/ \E r \in Runs : SaveStatus(r)
    \/ \E r \in Runs : Return(r)

SpecConcurrent == Init /\ [][NextConcurrent]_vars

\* the optional integers a caller passes as limit, zero among them
QueueLimits == {NoInt, Some(0), Some(1), Some(2)}

\* one dispatcher claiming from a queue of rows of either priority, with
\* enqueue running beside it
NextQueue ==
    \/ \E p \in Paths, pr \in Priorities : Enqueue(p, pr, MaxQueue)
    \/ \E l \in QueueLimits : StartDatabase("r1", l, NoInt, FALSE)
    \/ MarkProcessing("r1")
    \/ Dispatch("r1")
    \/ \E k \in 1..MaxQueue : WorkerStart("r1", k)
    \/ \E k \in 1..MaxQueue : WorkerFinish("r1", k)
    \/ \E k \in 1..MaxQueue, o \in {"success", "failure"} : Collect("r1", k, o)
    \/ SaveStatus("r1")
    \/ Return("r1")

SpecQueue == Init /\ [][NextQueue]_vars

\* one dispatcher draining the queue while `inputs clear` empties the table
\* and enqueue fills it again
NextClear ==
    \/ \E p \in Paths : Enqueue(p, 0, MaxItems)
    \/ Clear
    \/ StartDatabase("r1", NoInt, NoInt, FALSE)
    \/ MarkProcessing("r1")
    \/ Dispatch("r1")
    \/ \E k \in 1..MaxItems : WorkerStart("r1", k)
    \/ \E k \in 1..MaxItems : WorkerFinish("r1", k)
    \/ \E k \in 1..MaxItems, o \in {"success", "failure"} : Collect("r1", k, o)
    \/ SaveStatus("r1")
    \/ Return("r1")

SpecClear == Init /\ [][NextClear]_vars

\* the scheduling of one dispatcher call: the dispatcher's own statements
\* run one after the other, the pool starts a queued item when a process is
\* free, a started chain comes to its end, and as_completed hands over
\* every done future
Scheduling(r) ==
    /\ WF_vars(MarkProcessing(r))
    /\ WF_vars(Dispatch(r))
    /\ WF_vars(\E k \in 1..MaxBatch : WorkerStart(r, k))
    /\ WF_vars(\E k \in 1..MaxBatch : WorkerFinish(r, k))
    /\ WF_vars(\E k \in 1..MaxBatch, o \in {"success", "failure"} :
                  Collect(r, k, o))
    /\ WF_vars(SaveStatus(r))
    /\ WF_vars(Notify(r))
    /\ WF_vars(Return(r))

\* the dispatcher beside `inputs clear` and enqueue, fairly scheduled
SpecClearFair == Init /\ [][NextClear]_vars /\ Scheduling("r1")

\* the integers a caller passes as max_workers: none, negative, zero, and
\* counts below, at and above the processors of the machine
WorkerCounts == {NoInt, Some(-1), Some(0), Some(1), Some(2), Some(3)}

\* one run over a file list with every worker count
NextWorkers ==
    \/ \E fp \in SeqsUpTo({"a.txt"}, MaxSubmitted), w \in WorkerCounts :
          StartFiles("r1", fp, w, FALSE)
    \/ \E k \in 1..MaxSubmitted : WorkerStart("r1", k)
    \/ \E k \in 1..MaxSubmitted : WorkerFinish("r1", k)
    \/ \E k \in 1..MaxSubmitted, o \in {"success", "failure"} :
          Collect("r1", k, o)
    \/ Return("r1")

SpecWorkers == Init /\ [][NextWorkers]_vars

\* the queue commands on a database file that is either new (no table yet)
\* or prepared
InitStore ==
    /\ rows = <<>>
    /\ runs = [r \in Runs |-> IdleRun]
    /\ tables \in {{}, PreparedTables}
    /\ inputs_add = NoneV
    /\ InitFlow

SpecStore == InitStore /\ [][NextQueue]_vars

-----------------------------------------------------------------------------
(* Specification of the default chain *)

\* the batch ids a caller passes to a run from C: none, zero, and ids of
\* batches that may exist
BatchInputs == {NoInt, Some(0), Some(1), Some(2)}

\* two processes run the default chain side by side, in full over an input
\* file or from C over a batch id, one statement at a time
NextChain ==
    \/ \E w \in Workers, p \in FilePaths : RunFull(w, p, MaxChainRuns)
    \/ \E w \in Workers, id \in BatchInputs : RunFromC(w, id, MaxChainRuns)
    \/ \E w \in Workers : OpenOutput(w)
    \/ \E w \in Workers : DumpOutput(w)
    \/ \E w \in Workers : ValidateProcessed(w)
    \/ \E w \in Workers : CreateBatch(w)
    \/ \E w \in Workers : CreateRecord(w)
    \/ \E w \in Workers : RaiseInBatch(w)
    \/ \E w \in Workers : SaveBatch(w)
    \/ \E w \in Workers : ValidateBatch(w)
    \/ \E w \in Workers : FinalizeBatch(w)

SpecChain == Init /\ [][NextChain]_vars

-----------------------------------------------------------------------------
(* Specification of the chain runner *)

\* the values a caller passes as input_data
Inputs == {InputValue("x"), InputValue("y")}
\* the values a caller passes as start_from and stop_after
RangeNames == StepNames \cup {NoneV, UnknownName}

\* a chain is configured with add_job, then run once over any range
NextFlow ==
    \/ \E n \in StepNames : AddJob(n, MaxJobs)
    \/ \E x \in Inputs, a \in RangeNames, z \in RangeNames : StartFlow(x, a, z)
    \/ \E b \in Behaviours : StepFlow(b)

SpecFlow == Init /\ [][NextFlow]_vars

-----------------------------------------------------------------------------
(* Properties of the parallel executor *)

\* the ids of the rows a dispatcher selected with get_pending
BatchIds(run) == {run.pending_inputs[k].id : k \in DOMAIN run.pending_inputs}

\* dispatcher r holds item id: it selected the item and has neither written
\* a final status for it nor returned
Holds(r, id) ==
    /\ runs[r].pc \in {"mark", "pool", "save", "notify"}
    /\ id \in BatchIds(runs[r])
    /\ id \notin runs[r].finalized

\* C1: claim exclusivity.  Under every interleaving of concurrent
\* queue-sourced dispatchers no item is held by two of them at once: an item
\* returned to one claimer is not returned to another.
C1_ClaimExclusive ==
    \A r1 \in Runs, r2 \in Runs :
        r1 # r2 => \A id \in DOMAIN rows : ~(Holds(r1, id) /\ Holds(r2, id))

\* the futures of a run whose worker has started
Started(run) == {k \in DOMAIN run.futures : run.futures[k] # "queued"}

\* C2: aggregate invariant.  Whenever a dispatcher call has returned, total
\* is the number of items dispatched to workers and succeeded + failed is
\* total.
C2_Aggregate ==
    \A r \in Runs :
        runs[r].pc = "returned" =>
            /\ runs[r].ret.total = Cardinality(Started(runs[r]))
            /\ runs[r].ret.succeeded + runs[r].ret.failed = runs[r].ret.total

\* a returned batch of three kinds of item: one succeeded, one failed in its
\* chain, one whose future raised
C2_Witness ==
    /\ runs["r1"].pc = "returned"
    /\ runs["r1"].ret.total >= 2
    /\ runs["r1"].ret.succeeded >= 1
    /\ \E k \in DOMAIN runs["r1"].outcome : runs["r1"].outcome[k] = "broken"

\* C3: per-item fault containment.  No fault of one item makes the
\* dispatcher raise; when the call has returned, every submitted item has
\* exactly one outcome in the results, that outcome is the item's own
\* (success only if its own worker succeeded), whatever the other items did.
C3_FaultContained ==
    \A r \in Runs :
        LET run == runs[r]
            n == Len(run.file_paths)
        IN  /\ run.pc # "raised"
            /\ run.pc = "returned" =>
                /\ Len(run.ret.results) = n
                /\ Len(run.order) = n
                /\ {run.order[j] : j \in 1..n} = 1..n
                /\ \A j \in 1..n :
                    /\ run.ret.results[j].file_path = run.file_paths[run.order[j]]
                    /\ run.ret.results[j].success =
                           (run.outcome[run.order[j]] = "success")

\* a returned batch in which one item's future raised, another item's worker
\* raised, and the item collected after a fault succeeded
C3_Witness ==
    LET run == runs["r1"]
    IN  /\ run.pc = "returned"
        /\ Len(run.order) >= 2
        /\ run.outcome[run.order[1]] \in {"broken", "raise"}
        /\ run.outcome[run.order[2]] = "success"
        /\ run.ret.results[2].success

\* C4: finalization of every claimed item.  When a queue-sourced run has
\* returned, every item it claimed has left `processing` and is `completed`
\* exactly if its own worker succeeded (a failed item may meanwhile have
\* been reset to pending by retry-failed, never a succeeded one).
C4_Finalized ==
    \A r \in Runs :
        LET run == runs[r]
        IN  (run.pc = "returned" /\ run.source = "database") =>
                \A k \in DOMAIN run.pending_inputs :
                    LET status == rows[run.pending_inputs[k].id].status
                    IN  /\ status # PROCESSING
                        /\ (status = COMPLETED) = (run.outcome[k] = "success")

\* the edges of the status lifecycle
Edges ==
    {<<PENDING, PROCESSING>>, <<PROCESSING, COMPLETED>>,
     <<PROCESSING, FAILED>>, <<FAILED, PENDING>>}

\* C5: status lifecycle.  Every change of a work item's status follows an
\* edge pending -> processing, processing -> completed, processing ->
\* failed or failed -> pending.
C5_Lifecycle ==
    [][\A id \in DOMAIN rows :
          rows'[id].status # rows[id].status =>
              <<rows[id].status, rows'[id].status>> \in Edges]_vars

\* C6: claim-before-dispatch.  At the step in which the first worker of a
\* queue-sourced run starts, every item of the batch is `processing` with
\* started_at set in the table.
C6_ClaimBeforeDispatch ==
    [][\A r \in Runs :
          (/\ runs[r].source = "database"
           /\ Started(runs[r]) = {}
           /\ Started(runs'[r]) # {}) =>
              \A id \in BatchIds(runs[r]) :
                  /\ rows[id].status = PROCESSING
                  /\ rows[id].started_at = Now]_vars

\* the first worker of a queue-sourced batch of two items is executing
C6_Witness ==
    /\ runs["r1"].source = "database"
    /\ Len(runs["r1"].pending_inputs) >= 2
    /\ Cardinality(Started(runs["r1"])) = 1
    /\ \E k \in DOMAIN runs["r1"].futures : runs["r1"].futures[k] = "running"

\* the ids of the pending rows of the table
PendingIds == {id \in DOMAIN rows : rows[id].status = PENDING}

\* the number of pending rows that come before row id: those of higher
\* priority, and those of the same priority created earlier
Ahead(id) ==
    Cardinality({j \in PendingIds :
        \/ rows[j].priority > rows[id].priority
        \/ rows[j].priority = rows[id].priority
              /\ rows[j].created_at < rows[id].created_at})

\* how many items a claim with this limit takes: min(limit, pending)
ClaimSize(limit) ==
    IF limit = NoInt \/ limit[1] > Cardinality(PendingIds)
    THEN Cardinality(PendingIds) ELSE limit[1]

\* C11: claim ordering.  The batch a queue-sourced run selects is the first
\* min(limit, number of pending) items of the pending items by priority
\* descending, then created_at ascending, and a pending item leaves
\* `pending` only if it is in the batch of the run.
C11_ClaimOrdering ==
    [][\A r \in Runs :
          /\ (runs[r].pc = "idle" /\ runs'[r].source = "database") =>
                LET batch == runs'[r].pending_inputs
                IN  /\ Len(batch) = ClaimSize(runs'[r].limit)
                    /\ \A j \in DOMAIN batch :
                          /\ batch[j].id \in PendingIds
                          /\ Ahead(batch[j].id) = j - 1
          /\ \A id \in PendingIds :
                (id \in DOMAIN rows' /\ rows'[id].status # PENDING) =>
                    \E q \in Runs : id \in BatchIds(runs[q])]_vars

\* C12: limit cap.  A queue-sourced run given an integer limit, zero
\* included, selects and claims at most limit items.
C12_LimitCap ==
    \A r \in Runs :
        (runs[r].source = "database" /\ runs[r].limit # NoInt) =>
            /\ Len(runs[r].pending_inputs) <= runs[r].limit[1]
            /\ runs[r].marked <= runs[r].limit[1]

\* C13: finalization never raises.  Finalizing an item whose row was
\* deleted between claim and finalization does not raise to the caller of
\* the queue-sourced run.
C13_FinalizeNeverRaises ==
    \A r \in Runs :
        runs[r].source = "database" => runs[r].pc # "raised"

\* C14: exactly-once outcomes.  The results of a returned call hold exactly
\* one outcome for every position of the submitted list, also when a path
\* is listed more than once: none is missing and none appears twice.
C14_ExactlyOnce ==
    \A r \in Runs :
        LET run == runs[r]
        IN  run.pc = "returned" =>
              /\ Len(run.ret.results) = Len(run.order)
              /\ \A k \in DOMAIN run.file_paths :
                    Cardinality({j \in DOMAIN run.order : run.order[j] = k}) = 1
              /\ \A p \in Paths :
                    Cardinality({j \in DOMAIN run.ret.results :
                                    run.ret.results[j].file_path = p})
                    = Cardinality({k \in DOMAIN run.file_paths :
                                    run.file_paths[k] = p})

\* a returned call over a list that names the same path twice
C14_Witness ==
    /\ runs["r1"].pc = "returned"
    /\ runs["r1"].source = "files"
    /\ runs["r1"].file_paths = <<"a.txt", "a.txt">>
    /\ Len(runs["r1"].ret.results) = 2

\* C15: progress callback protocol.  In a run that returns, the progress
\* callback has been invoked exactly total times, once per outcome and in
\* the order of the outcomes, with completed = 1, 2, ..., total and the
\* total argument equal to total on every call.
C15_Progress ==
    \A r \in Runs :
        LET run == runs[r]
        IN  /\ Len(run.calls) <= Len(run.results)
            /\ (run.pc = "returned" /\ run.progress_callback) =>
                  /\ Len(run.calls) = run.ret.total
                  /\ \A j \in DOMAIN run.calls :
                        /\ run.calls[j].completed = j
                        /\ run.calls[j].total = run.ret.total
                        /\ run.calls[j].file_path = run.ret.results[j].file_path
                        /\ run.calls[j].success = run.ret.results[j].success

\* a returned run of two items whose callback was called for a failed
\* outcome first and a successful one second
C15_Witness ==
    /\ runs["r1"].pc = "returned"
    /\ runs["r1"].progress_callback
    /\ Len(runs["r1"].calls) = 2
    /\ ~runs["r1"].calls[1].success
    /\ runs["r1"].calls[2].success

\* C16: crash semantics.  A claimed item whose worker process died before
\* reporting an outcome stays `processing`: nothing moves it to failed,
\* completed or pending.
C16_CrashStuck ==
    \A r \in Runs :
        LET run == runs[r]
        IN  run.source = "database" =>
              \A k \in DOMAIN run.outcome :
                  run.outcome[k] = "broken" =>
                      rows[run.pending_inputs[k].id].status = PROCESSING

\* a step of a worker process: it takes an item or ends
WorkerStep ==
    \E r \in Runs : \E k \in DOMAIN runs[r].futures :
        /\ runs[r].futures[k] \in {"queued", "running"}
        /\ runs'[r].futures[k] \in {"running", "done"}
        /\ runs'[r].futures[k] # runs[r].futures[k]

\* dispatcher r claims a row in this step, before any of its workers started
ClaimStep(r) ==
    /\ runs[r].pc = "mark"
    /\ runs'[r].marked = runs[r].marked + 1
    /\ runs[r].futures = <<>>

\* dispatcher r writes a final status in this step, for an outcome it has
\* collected
FinalizeStep(r) ==
    /\ runs[r].pc = "save"
    /\ runs'[r].pc # "save"
    /\ runs[r].results # <<>>
    /\ runs[r].futures[runs[r].order[Len(runs[r].order)]] = "collected"

\* C17: status ownership.  A step of a worker leaves the queue table as it
\* is; a row becomes processing only in a claim step of a dispatcher, before
\* dispatch, and completed or failed only in a finalize step of a
\* dispatcher, after the outcome arrived.
C17_StatusOwnership ==
    [][/\ WorkerStep => rows' = rows
       /\ \A id \in DOMAIN rows :
             rows'[id].status # rows[id].status =>
                 CASE rows'[id].status = PROCESSING ->
                          \E r \in Runs : ClaimStep(r)
                   [] rows'[id].status \in {COMPLETED, FAILED} ->
                          \E r \in Runs : FinalizeStep(r)
                   [] OTHER -> TRUE]_vars

\* the worker of a claimed item has ended and the item is still processing:
\* its final status is left to the dispatcher
C17_Witness ==
    /\ runs["r1"].source = "database"
    /\ \E k \in DOMAIN runs["r1"].futures :
          /\ runs["r1"].futures[k] = "done"
          /\ rows[runs["r1"].pending_inputs[k].id].status = PROCESSING

\* the step is a retry-failed: a failed row is pending after it
RetryStep ==
    \E id \in DOMAIN rows : rows[id].status = FAILED /\ rows'[id].status = PENDING

\* C18: reset_failed effect.  Retry-failed moves every failed item to
\* pending with started_at, completed_at and error_message cleared and
\* nothing else of it changed, reports the number of items that were failed
\* before the call, and leaves no item failed.
C18_ResetEffect ==
    [][RetryStep =>
          /\ \A id \in DOMAIN rows :
                rows[id].status = FAILED =>
                    /\ rows'[id].status = PENDING
                    /\ rows'[id].started_at = NoneV
                    /\ rows'[id].completed_at = NoneV
                    /\ rows'[id].error_message = NoneV
                    /\ rows'[id].id = rows[id].id
                    /\ rows'[id].file_path = rows[id].file_path
                    /\ rows'[id].priority = rows[id].priority
                    /\ rows'[id].created_at = rows[id].created_at
          /\ retry_failed_count(rows) =
                Cardinality({id \in DOMAIN rows : rows[id].status = FAILED})
          /\ retry_failed_count(rows) =
                Cardinality({id \in DOMAIN rows :
                    rows[id].status = FAILED /\ rows'[id].status = PENDING})
          /\ \A id \in DOMAIN rows' : rows'[id].status # FAILED]_vars

\* an item the run finalized as failed is pending again with its
\* timestamps and error message cleared
C18_Witness ==
    \E k \in DOMAIN runs["r1"].pending_inputs :
        LET id == runs["r1"].pending_inputs[k].id
        IN  /\ id \in runs["r1"].finalized
            /\ runs["r1"].outcome[k] = "failure"
            /\ rows[id].status = PENDING
            /\ rows[id].error_message = NoneV
            /\ rows[id].completed_at = NoneV

\* C19: reset_failed frame.  Retry-failed leaves every item that is
\* pending, processing or completed exactly as it was, so the completed
\* count is unchanged and the pending count grows by the failed count.
C19_ResetFrame ==
    [][RetryStep =>
          /\ \A id \in DOMAIN rows :
                rows[id].status # FAILED => rows'[id] = rows[id]
          /\ DOMAIN rows' = DOMAIN rows
          /\ Cardinality({id \in DOMAIN rows' : rows'[id].status = PENDING}) =
                Cardinality({id \in DOMAIN rows :
                                rows[id].status \in {PENDING, FAILED}})]_vars

\* after a run that failed one item and completed the other, the failed one
\* has been reset to pending and the completed one is completed still
C19_Witness ==
    /\ runs["r1"].pc = "returned"
    /\ Cardinality(runs["r1"].finalized) = 2
    /\ \E id \in runs["r1"].finalized, other \in runs["r1"].finalized :
          /\ rows[id].status = PENDING
          /\ rows[other].status = COMPLETED
          /\ rows[other].completed_at = Now

\* the step is an `inputs add` of one file: no dispatcher moved and no row
\* was deleted
EnqueueStep == runs' = runs /\ Len(rows') >= Len(rows)

\* C30: enqueue.  Whenever the store is reachable, add_input succeeds and
\* creates exactly one new item with an id no existing item has, status
\* pending, the given priority and no started_at, completed_at or
\* error_message, and leaves every existing item unchanged.
C30_Enqueue ==
    [][EnqueueStep =>
          /\ inputs_add' = "added"
          /\ Len(rows') = Len(rows) + 1
          /\ \A id \in DOMAIN rows : rows'[id] = rows[id]
          /\ LET new == rows'[Len(rows')]
             IN  /\ \A id \in DOMAIN rows : rows[id].id # new.id
                 /\ new.status = PENDING
                 /\ new.priority \in Priorities
                 /\ new.file_path \in Paths
                 /\ new.started_at = NoneV
                 /\ new.completed_at = NoneV
                 /\ new.error_message = NoneV]_vars

\* dispatcher r is called in this step with nothing to process: an empty
\* file list, or a queue without a pending item
EmptyBatchStart(r) ==
    /\ runs[r].pc = "idle"
    /\ runs'[r].pc # "idle"
    /\ \/ runs'[r].source = "files" /\ runs'[r].file_paths = <<>>
       \/ runs'[r].source = "database" /\ PendingIds = {}

Min(a, b) == IF a < b THEN a ELSE b
Max(a, b) == IF a > b THEN a ELSE b

\* clamp(v, lo, hi)
Clamp(v, lo, hi) == Max(lo, Min(v, hi))

\* C28: worker count resolution.  For every requested value and every
\* available parallelism P >= 1, get_max_workers gives P when nothing is
\* requested, 1 when the request is below 1 and min(request, P) otherwise,
\* which is clamp(request ?? P, 1, P); the result lies in 1..P.
C28_WorkerCount ==
    \A r \in Runs : \A P \in 1..MaxParallelism :
        LET requested == runs[r].max_workers
            workers == get_max_workers_on(requested, P)
        IN  /\ workers \in 1..P
            /\ requested = NoInt => workers = P
            /\ (requested # NoInt /\ requested[1] < 1) => workers = 1
            /\ (requested # NoInt /\ requested[1] >= 1) =>
                   workers = Min(requested[1], P)
            /\ workers = Clamp(IF requested = NoInt THEN P ELSE requested[1], 1, P)
            /\ get_max_workers(requested) = get_max_workers_on(requested, cpu_count)

\* a run that asked for 0 workers has one worker executing
C28_Witness ==
    /\ runs["r1"].max_workers = Some(0)
    /\ Cardinality(Running(runs["r1"])) = 1

\* C29: bounded parallelism.  At every moment of a run the number of items
\* whose worker is executing is at most get_max_workers(max_workers), hence
\* at most the processors of the machine, however many items were submitted.
C29_BoundedParallelism ==
    \A r \in Runs :
        /\ Cardinality(Running(runs[r])) <= get_max_workers(runs[r].max_workers)
        /\ Cardinality(Running(runs[r])) <= cpu_count

\* three items were submitted with 3 workers asked for: as many workers as
\* the machine has processors are executing and an item waits
C29_Witness ==
    /\ runs["r1"].max_workers = Some(3)
    /\ Len(runs["r1"].futures) = 3
    /\ Cardinality(Running(runs["r1"])) = cpu_count
    /\ \E k \in DOMAIN runs["r1"].futures : runs["r1"].futures[k] = "queued"

\* dispatcher r has been called and has not ended
Called(r) == runs[r].pc \notin {"idle", "returned", "raised"}

\* every submitted item of run has produced an outcome that was collected
AllOutcomes(run) ==
    /\ Len(run.results) = Len(run.file_paths)
    /\ \A k \in DOMAIN run.futures : run.futures[k] = "collected"

\* C31: termination.  With chains that terminate and fairly scheduled
\* workers, every parallel run that was called eventually returns its
\* ParallelExecutionResult, and a run has returned only when every submitted
\* item has produced an outcome.
C31_Termination ==
    /\ [](\A r \in Runs : runs[r].pc = "returned" => AllOutcomes(runs[r]))
    /\ \A r \in Runs : Called(r) ~> (runs[r].pc = "returned")

\* p and q denote the same number
SameNumber(p, q) == p.den # 0 /\ q.den # 0 /\ p.num * q.den = q.num * p.den

\* success_rate of result is the number the claim gives
RateAsStated(result) ==
    LET rate == success_rate(result)
    IN  /\ result.total = 0 => SameNumber(rate, Rational(0, 1))
        /\ result.total # 0 =>
               SameNumber(rate, Rational(result.succeeded * 100, result.total))
        /\ (result.total # 0 /\ result.succeeded = result.total) =>
               SameNumber(rate, Rational(100, 1))
        /\ (result.total = 10 /\ result.succeeded = 7) =>
               SameNumber(rate, Rational(70, 1))

C34_FinalizeBeforeNotify ==
    \A r \in Runs :
        runs[r].source = "database" =>
            \A j \in DOMAIN runs[r].calls :
                /\ runs[r].calls[j].item_finalized
                /\ runs[r].calls[j].item_status \in {COMPLETED, FAILED, PENDING}

\* the optional fields of a queue row agree with its status
FieldsAgree(row) ==
    /\ row.status = PENDING =>
          /\ row.started_at = NoneV
          /\ row.completed_at = NoneV
          /\ row.error_message = NoneV
    /\ row.status = PROCESSING =>
          /\ row.started_at # NoneV
          /\ row.completed_at = NoneV
    /\ row.status \in {COMPLETED, FAILED} =>
          /\ row.started_at # NoneV
          /\ row.completed_at # NoneV
    /\ row.error_message # NoneV <=> row.status = FAILED

\* C39: work item field invariant.  In every state reached through enqueue,
\* queue-sourced runs and retry-failed, a pending item has no started_at,
\* completed_at or error_message; a processing item has started_at and no
\* completed_at; a completed or failed item has both; and an item has an
\* error_message exactly when it is failed.
C39_FieldInvariant == \A id \in DOMAIN rows : FieldsAgree(rows[id])

-----------------------------------------------------------------------------
(* Properties of the chain runner *)

IsCreate(e) == e.op = "create_instance"
IsValidate(e) == e.op = "validate_input"
IsRun(e) == e.op = "single_job"

\* the names of the jobs of a list of events or of job specs, in order
JobsOf(events) == [j \in DOMAIN events |-> events[j].job]
NamesOf(specs) == [j \in DOMAIN specs |-> specs[j].name]

\* the steps run_pipeline instantiated, and those whose execute it called
Created == JobsOf(SelectSeq(flow.trace, IsCreate))
Executed == JobsOf(SelectSeq(flow.trace, IsValidate))

\* s is a prefix of t
IsPrefix(s, t) == Len(s) <= Len(t) /\ s = SubSeq(t, 1, Len(s))

\* the position of name in the chain, found by looking through the chain
\* (0 when it is not there)
PositionOf(name) ==
    IF \E j \in DOMAIN pipeline._jobs : pipeline._jobs[j].name = name
    THEN CHOOSE j \in DOMAIN pipeline._jobs : pipeline._jobs[j].name = name
    ELSE 0

\* the names of the inclusive range from start_from to stop_after, read off
\* the chain: an omitted name stands for the first, or the last, step
ResolvedRange ==
    LET first == IF flow.start_from = NoneV THEN 1 ELSE PositionOf(flow.start_from)
        last == IF flow.stop_after = NoneV THEN Len(pipeline._jobs)
                ELSE PositionOf(flow.stop_after)
    IN  IF pipeline._jobs = <<>> THEN <<>>
        ELSE [j \in 1..(last - first + 1) |-> pipeline._jobs[first + j - 1].name]

\* C7: first-failure short-circuit.  A failing JobResult of a step is the
\* last result of the run: run_pipeline has returned, it returned exactly
\* that result, and the steps instantiated or executed are those up to the
\* failing position, none after it.
C7_ShortCircuit ==
    \A k \in DOMAIN flow.results :
        ~flow.results[k].success =>
            /\ k = Len(flow.results)
            /\ flow.pc = "returned"
            /\ flow.result = flow.results[k]
            /\ Created = SubSeq(NamesOf(flow.jobs_to_run), 1, k)
            /\ Executed = Created

\* a range of three steps whose second step failed
C7_Witness ==
    /\ flow.pc = "returned"
    /\ Len(flow.jobs_to_run) = 3
    /\ Len(flow.results) = 2
    /\ ~flow.results[2].success

\* the raw inputs the executed steps received, in order
Received == SelectSeq(flow.trace, IsValidate)

\* C8: data threading.  The first step receives the caller's input, every
\* later step the output of the step before it; when every step of the
\* range has succeeded, run_pipeline returns the JobResult of the last step
\* of the range.
C8_Threading ==
    /\ \A j \in DOMAIN Received :
          Received[j].data = IF j = 1 THEN flow.input_data
                             ELSE flow.results[j - 1].output
    /\ (/\ flow.pc = "returned"
        /\ flow.jobs_to_run # <<>>
        /\ \A k \in DOMAIN flow.results : flow.results[k].success) =>
          /\ Len(flow.results) = Len(flow.jobs_to_run)
          /\ flow.result = flow.results[Len(flow.results)]
          /\ flow.result.job_name =
                 flow.jobs_to_run[Len(flow.jobs_to_run)].name

\* a range of three steps that all succeeded
C8_Witness ==
    /\ flow.pc = "returned"
    /\ Len(flow.jobs_to_run) = 3
    /\ Len(flow.results) = 3
    /\ flow.result.success

\* C9 as stated: a run_pipeline call that has returned has executed exactly
\* the steps of the resolved inclusive range.
C9_ExactlyRange ==
    flow.pc = "returned" => Executed = ResolvedRange

\* C9 amended: run_pipeline instantiates and executes the steps of the
\* resolved inclusive range in chain order, each at most once, up to the
\* first step that fails; it never instantiates or executes a step outside
\* the range, and a call that returns a successful result has executed
\* exactly the steps of the range.
C9_RangePrefix ==
    flow.pc \in {"loop", "returned"} =>
        /\ IsPrefix(Created, ResolvedRange)
        /\ Executed = Created
        /\ IsPrefix(JobsOf(SelectSeq(flow.trace, IsRun)), Executed)
        /\ (flow.pc = "returned" /\ flow.result.success) =>
               Executed = ResolvedRange

\* the chain [A, B, C] run with start_from = B and stop_after = B: only B
\* was executed and its JobResult returned
C9_Witness ==
    /\ NamesOf(pipeline._jobs) = <<"A", "B", "C">>
    /\ flow.start_from = "B"
    /\ flow.stop_after = "B"
    /\ flow.pc = "returned"
    /\ Executed = <<"B">>
    /\ flow.result.success
    /\ flow.result.job_name = "B"

\* C10: uniform error containment.  No exception leaves BaseJob.execute: a
\* run_pipeline call raises only before any execute (range resolution) or
\* out of a constructor; a step whose validate_input or single_job raised
\* yields a JobResult with success false and the exception's message as
\* error.
C10_Contained ==
    /\ flow.pc = "raised" =>
          \/ flow.trace = <<>>
          \/ flow.trace[Len(flow.trace)].op = "create_instance"
    /\ Len(flow.results) = Len(Executed)
    /\ \A k \in DOMAIN flow.results :
          flow.behaviours[k] \in {"invalid", "error"} =>
              /\ ~flow.results[k].success
              /\ flow.results[k].error = Message(flow.behaviours[k])
              /\ flow.results[k].error # NoneV

\* a step whose single_job raised after its validate_input had returned
C10_Witness ==
    /\ flow.pc = "returned"
    /\ Len(flow.results) = 2
    /\ flow.behaviours[2] = "error"
    /\ flow.trace[Len(flow.trace)].op = "single_job"
    /\ ~flow.result.success

\* C20: range resolution.  For a non-empty chain and start/stop each
\* omitted or a name of the chain, get_jobs_in_range returns exactly the
\* inclusive contiguous sub-sequence from start to stop in chain order when
\* start is not after stop (the full chain when both are omitted), and fails
\* with the invalid-range error when start comes after stop.
C20_RangeResolution ==
    LET names == {pipeline._jobs[j].name : j \in DOMAIN pipeline._jobs}
        first == IF flow.start_from = NoneV THEN 1
                 ELSE PositionOf(flow.start_from)
        last == IF flow.stop_after = NoneV THEN Len(pipeline._jobs)
                ELSE PositionOf(flow.stop_after)
    IN  (/\ flow.pc # "idle"
         /\ pipeline._jobs # <<>>
         /\ flow.start_from \in names \cup {NoneV}
         /\ flow.stop_after \in names \cup {NoneV}) =>
            IF first <= last
            THEN /\ flow.message = NoneV
                 /\ Len(flow.jobs_to_run) = last - first + 1
                 /\ \A j \in DOMAIN flow.jobs_to_run :
                       flow.jobs_to_run[j] = pipeline._jobs[first + j - 1]
                 /\ (flow.start_from = NoneV /\ flow.stop_after = NoneV) =>
                       flow.jobs_to_run = pipeline._jobs
            ELSE /\ flow.pc = "raised"
                 /\ flow.error = "ValueError"
                 /\ flow.message = MustComeBefore
                 /\ flow.trace = <<>>

\* the chain [A, B, C] resolved from B to the omitted stop: the steps B, C
C20_Witness ==
    /\ NamesOf(pipeline._jobs) = <<"A", "B", "C">>
    /\ flow.start_from = "B"
    /\ flow.stop_after = NoneV
    /\ NamesOf(flow.jobs_to_run) = <<"B", "C">>

\* the chain [A, B, C] asked for the range from C to A: the call raised
C20_WitnessReversed ==
    /\ NamesOf(pipeline._jobs) = <<"A", "B", "C">>
    /\ flow.start_from = "C"
    /\ flow.stop_after = "A"
    /\ flow.pc = "raised"

\* the names of the steps of the chain
ChainNames == {pipeline._jobs[j].name : j \in DOMAIN pipeline._jobs}

\* a start_from or stop_after of the call is given and is no step of the chain
UnknownGiven ==
    \/ flow.start_from \notin ChainNames \cup {NoneV}
    \/ flow.stop_after \notin ChainNames \cup {NoneV}

\* C21: unknown step.  For every chain, the empty chain included, a call
\* whose start_from or stop_after names no step of the chain fails with the
\* unknown-step error and gets no range.
C21_UnknownStep ==
    (flow.pc # "idle" /\ UnknownGiven) =>
        /\ flow.pc = "raised"
        /\ flow.error = "ValueError"
        /\ flow.message = UnknownJob
        /\ flow.jobs_to_run = <<>>
        /\ flow.trace = <<>>

\* C22: add_job.  Adding a name that is already present fails with the
\* duplicate-name error and leaves the order, the specs and the name index
\* of the chain unchanged; adding a new name appends the step at the end
\* and leaves the existing steps and their indices unchanged.
C22_AddJob ==
    \A name \in StepNames :
        LET added == add_job(pipeline, name)
        IN  IF name \in ChainNames
            THEN /\ added.error = "ValueError"
                 /\ added._jobs = pipeline._jobs
                 /\ added._job_index = pipeline._job_index
            ELSE /\ added.error = NoneV
                 /\ Len(added._jobs) = Len(pipeline._jobs) + 1
                 /\ added._jobs[Len(added._jobs)].name = name
                 /\ \A j \in DOMAIN pipeline._jobs :
                       added._jobs[j] = pipeline._jobs[j]
                 /\ \A n \in ChainNames :
                       added._job_index[n] = pipeline._job_index[n]
                 /\ DOMAIN added._job_index = ChainNames \cup {name}
                 /\ added._job_index[name] = Len(pipeline._jobs)

\* a chain of two steps to which a name it holds was added again
C22_Witness ==
    /\ Len(pipeline._jobs) = 2
    /\ pipeline.error = "ValueError"
    /\ Cardinality(ChainNames) = 2

\* C23: empty-range pass-through.  When the resolved range has no step,
\* run_pipeline executes no job and returns a JobResult with success true
\* whose output is the caller's input, unchanged.
C23_PassThrough ==
    (flow.pc \notin {"idle", "raised"} /\ flow.jobs_to_run = <<>>) =>
        /\ flow.pc = "returned"
        /\ flow.result.success
        /\ flow.result.output = flow.input_data
        /\ flow.result.error = NoneV
        /\ flow.trace = <<>>
        /\ flow.results = <<>>

\* the empty chain run over its whole, empty, range with input x
C23_Witness ==
    /\ pipeline._jobs = <<>>
    /\ flow.pc = "returned"
    /\ flow.start_from = NoneV
    /\ flow.stop_after = NoneV
    /\ flow.input_data = InputValue("x")
    /\ flow.result.output = InputValue("x")

\* the number of validate_input calls among the first i events of the trace
ValidatedUpTo(i) ==
    Cardinality({j \in 1..i : flow.trace[j].op = "validate_input"})

\* C24: validate-before-run.  single_job is invoked only right after the
\* validate_input of the same job has returned, on what it returned, and is
\* not invoked for a job whose validate_input raised.
C24_ValidateBeforeRun ==
    \A i \in DOMAIN flow.trace :
        /\ flow.trace[i].op = "single_job" =>
              /\ i > 1
              /\ flow.trace[i - 1].op = "validate_input"
              /\ flow.trace[i - 1].job = flow.trace[i].job
              /\ flow.trace[i].data =
                    validate_input(flow.trace[i].job, flow.trace[i - 1].data)
              /\ flow.behaviours[ValidatedUpTo(i)] # "invalid"
        /\ (/\ flow.trace[i].op = "validate_input"
            /\ flow.behaviours[ValidatedUpTo(i)] = "invalid") =>
              i = Len(flow.trace)

\* the second step of a range failed validation: the last call of the run
\* is its validate_input
C24_Witness ==
    /\ flow.pc = "returned"
    /\ Len(flow.behaviours) = 2
    /\ flow.behaviours[2] = "invalid"
    /\ flow.trace[Len(flow.trace)].op = "validate_input"
    /\ flow.trace[Len(flow.trace) - 1].op = "create_instance"

\* exactly one of output and error is populated, as success says
WellShaped(result) ==
    IF result.success
    THEN result.output # NoData /\ result.error = NoneV
    ELSE result.error # NoneV /\ result.output = NoData

\* C25: JobResult shape.  Every JobResult of BaseJob.execute or run_pipeline
\* has its output populated and no error when success is true, and its
\* error populated and no output when success is false, also for a job whose
\* single_job returns no value.
C25_ResultShape ==
    /\ \A k \in DOMAIN flow.results : WellShaped(flow.results[k])
    /\ flow.pc = "returned" => WellShaped(flow.result)

\* the chain is not empty and the range asked for starts after it stops
ReversedGiven ==
    /\ pipeline._jobs # <<>>
    /\ ~UnknownGiven
    /\ flow.start_from # NoneV
    /\ flow.stop_after # NoneV
    /\ PositionOf(flow.start_from) > PositionOf(flow.stop_after)

\* C26: configuration errors are distinct from job failures.  A
\* run_pipeline call given an unknown step name or a reversed range raises
\* to its caller, returns no JobResult and runs no step; a job whose
\* validate_input or single_job raised yields a failing JobResult that is
\* returned, not raised.
C26_ConfigErrorsDistinct ==
    /\ (flow.pc # "idle" /\ (UnknownGiven \/ ReversedGiven)) =>
          /\ flow.pc = "raised"
          /\ flow.trace = <<>>
          /\ flow.results = <<>>
    /\ \A k \in DOMAIN flow.behaviours :
          flow.behaviours[k] \in {"invalid", "error"} =>
              /\ flow.pc = "returned"
              /\ k = Len(flow.results)
              /\ ~flow.result.success

\* C35: chain registry invariant.  After any sequence of add_job calls,
\* failing ones among them, the names of the steps are pairwise distinct,
\* the name index holds exactly the names of the steps, and it maps every
\* name to the position of its step: get_job(name).name = name.
C35_Registry ==
    /\ \A i, j \in DOMAIN pipeline._jobs :
          i # j => pipeline._jobs[i].name # pipeline._jobs[j].name
    /\ DOMAIN pipeline._job_index = ChainNames
    /\ \A j \in DOMAIN pipeline._jobs :
          pipeline._job_index[pipeline._jobs[j].name] = j - 1
    /\ \A name \in ChainNames :
          /\ ~get_job(pipeline, name).raised
          /\ get_job(pipeline, name).job.name = name

\* a chain of two steps whose last add_job call failed; get_job finds the
\* second step under its name
C35_Witness ==
    /\ Len(pipeline._jobs) = 2
    /\ pipeline.error = "ValueError"
    /\ pipeline._job_index[pipeline._jobs[2].name] = 1
    /\ get_job(pipeline, pipeline._jobs[2].name).job = pipeline._jobs[2]

-----------------------------------------------------------------------------
(* Properties of the default chain *)

\* the number of lines of the input file that are not blank
NonEmptyLines(file_path) ==
    Cardinality({i \in DOMAIN DiskFiles[file_path] : DiskFiles[file_path][i] # ""})

\* the batches a chain run has created, and the records of a batch
BatchesOf(item) == {b \in DOMAIN batches : batches[b].item = item}
RecordsIn(b) == {i \in DOMAIN records : records[i].batch = b}

\* worker w has ended a full run A -> B -> C with success
FullRunSucceeded(w) ==
    /\ processes[w].pc = "done"
    /\ processes[w].start_from = "A"
    /\ processes[w].result.success

\* C33: end-to-end effect of the default chain.  After a successful full
\* run on an input file with n >= 1 non-empty lines, exactly one batch
\* exists that the run created; it is finalized, its record_count is n, and
\* it has exactly n records, all finalized.
C33_EndToEnd ==
    \A w \in Workers :
        FullRunSucceeded(w) =>
            LET n == NonEmptyLines(processes[w].input_data)
                mine == BatchesOf(processes[w].item)
            IN  /\ n >= 1
                /\ Cardinality(mine) = 1
                /\ \A b \in mine :
                      /\ batches[b].status = "finalized"
                      /\ batches[b].record_count = n
                      /\ Cardinality(RecordsIn(b)) = n
                      /\ \A i \in RecordsIn(b) : records[i].is_finalized

\* worker w is between opening its intermediate output file and reading it
UsesOutput(w) == processes[w].pc \in {"A_open", "A_dump", "B_validate"}

\* step B of worker w has read its input file
HasRead(w) ==
    /\ processes[w].start_from = "A"
    /\ processes[w].pc \in {"B_create", "B_record", "C_validate", "C_job", "done"}
    /\ processes[w].failed_in \notin {"A_validate", "B_validate"}

\* C36: worker isolation on the shared filesystem.  Step B of every item
\* consumes the output file that the same item's step A wrote, and no two
\* items that run at the same time write or read the same intermediate
\* output file, also when their inputs share a stem or are the same path.
C36_Isolation ==
    /\ \A w \in Workers : HasRead(w) => processes[w].read_from = processes[w].item
    /\ \A w, v \in Workers :
          (w # v /\ UsesOutput(w) /\ UsesOutput(v)) =>
              processes[w].output_path # processes[v].output_path

\* the records a chain run has created
RecordsOf(item) == {i \in DOMAIN records : records[i].item = item}

\* C37: step B atomicity.  When JobB.single_job fails after it created the
\* batch row, no batch and no record of that invocation is in the store;
\* the same holds while the invocation is still running; and no batch in
\* the store has status `processing` or a record_count that differs from
\* the number of its records.
C37_Atomicity ==
    /\ \A b \in DOMAIN batches :
          /\ batches[b].status # "processing"
          /\ batches[b].record_count = Cardinality(RecordsIn(b))
    /\ \A i \in DOMAIN records : records[i].batch \in DOMAIN batches
    /\ \A w \in Workers :
          (processes[w].failed_in = "B_job" \/ processes[w].pc = "B_record") =>
              /\ BatchesOf(processes[w].item) = {}
              /\ RecordsOf(processes[w].item) = {}

\* JobB.single_job failed after it had created the batch and a record,
\* while the store holds the batch of another run
C37_Witness ==
    \E w \in Workers :
        /\ processes[w].pc = "done"
        /\ processes[w].failed_in = "B_job"
        /\ processes[w].records_created >= 1
        /\ batches # <<>>
        /\ transaction = NoTransaction

\* JobC.single_job of worker w runs in this step
FinalizesBatch(w) == processes[w].pc = "C_job" /\ processes'[w].pc = "done"

\* JobC.validate_input of worker w raises in this step
RefusesBatch(w) ==
    /\ processes[w].pc = "C_validate"
    /\ processes'[w].pc = "done"

\* C38: step C guard.  JobC.execute finalizes a batch only when the batch
\* exists, is `completed` and has record_count > 0; otherwise it returns a
\* failing JobResult and changes nothing.  So no batch is finalized twice
\* and no batch without records is ever finalized.
C38_Guard ==
    [][/\ \A w \in Workers :
             FinalizesBatch(w) =>
                 LET batch_id == processes[w].batch_id[1]
                 IN  /\ batch_id \in DOMAIN batches
                     /\ batches[batch_id].status = "completed"
                     /\ batches[batch_id].record_count > 0
       /\ \A w \in Workers :
             RefusesBatch(w) =>
                 /\ ~processes'[w].result.success
                 /\ batches' = batches
                 /\ records' = records
       /\ \A b \in DOMAIN batches' :
             /\ batches'[b].finalizations <= 1
             /\ batches'[b].status = "finalized" => batches'[b].record_count > 0
      ]_vars

=============================================================================
